---- MODULE Spec2Model ----
(***************************************************************************)
(* deqp-runner: the build manager (src/src/pti/builds.rs), the subprocess  *)
(* runner (src/src/rundeqp.rs), the test suite and its sampler             *)
(* (src/src/pti/suite.rs), the string pool (src/src/pti/string_pool.rs)    *)
(* and the revisions (src/src/pti/sut.rs).                                 *)
(*                                                                         *)
(* The parts share no state.  Each has its own variables and its own       *)
(* specification over the one initial state: Spec for the build manager   *)
(* (SpecBuildFair for one run of it with the fairness of the runtime,      *)
(* SpecBuildCancel for such a run with dropped futures), SpecRunner        *)
(* (SpecRunnerFair with the fairness of the runtime) for one run of        *)
(* run_deqp, SpecSuite for the put calls on one Suite, SpecPool for the    *)
(* put calls on one Pool with its hash table (SpecPoolFill for a pool      *)
(* filled with strings of one first slot), SpecSut for the JSON of a       *)
(* Revision, SpecSampler for a Sampler of a suite and its samples.         *)
(*                                                                         *)
(* Build manager.  The model follows one build directory through manager   *)
(* runs.  A run is started by BuildMgr::new, which replays buildlog.json,  *)
(* and is ended by the exit of the process, which drops every pending      *)
(* get_or_make_build future.  Within a run the futures are tasks of a      *)
(* cooperative scheduler: a task runs without interruption from one await  *)
(* to the next, so every action is the code between two suspension points. *)
(*                                                                         *)
(* Abstractions: the time stamp of a log entry and Build::last_used are    *)
(* left out (no decision of the code reads them); a revision is an opaque  *)
(* value; a failed write to the log appends nothing.                       *)
(***************************************************************************)
EXTENDS Integers, Sequences, FiniteSets, TLC

\* Bounds of the model.  Tasks bounds the calls of get_or_make_build in one
\* run of the manager, Revs the revisions they ask for.
MaxId == 2
MaxLog == 3
\* MaxId: the largest build id that is allocated; MaxLog: the largest number
\* of lines of buildlog.json.

Tasks == {1, 2, 3}              \* the get_or_make_build calls of a run, in call order
Revs == {"r1", "r2"}            \* revisions that are asked for
NoRev == "none"

Ids == 1..MaxId

VARIABLES
    phase,              \* "down", "running", or "failed" (BuildMgr::new returned Err)
    disk,               \* the lines of buildlog.json
    state,              \* BuildMgr::state : BuildMgrState
    building,           \* BuildMgr::building
    building_permit,    \* BuildMgr::building_notify: the stored permit
    building_waiters,   \* BuildMgr::building_notify: the waiters, oldest first
    pc,                 \* position of every get_or_make_build future
    task_rev,           \* its argument rev
    task_id,            \* its local id
    ret,                \* its return value
    chosen,             \* history: the ids ever chosen in this directory
    chosen_run,         \* history: the ids chosen in this run
    attempts,           \* history: build_inner calls per id in this run (2 = several)
    write_failed,       \* history: a write to the log failed in this run
    \* The subprocess runner (src/src/rundeqp.rs).
    rstate,             \* the RunDeqpState of run_deqp
    stream,             \* position of the generator of run_deqp
    events,             \* the events the stream has yielded
    proc,               \* the deqp process: "none", "running", "exited_ok", "exited_fail", "killed"
    kill_task,          \* the task spawned by the timeout arm: "none", "pending", "done"
    nlines,             \* history: stdout lines read
    nerrlines,          \* history: stderr lines read
    starts,             \* history: names of the test-start lines read before DONE!
    occurred,           \* history: the errors of the run in the order they occurred
    done_seen,          \* history: the line DONE! was read
    open_at_exit,       \* history: a test was open when the select loop ended
    exit_state,         \* history: the RunDeqpState with which the loop ended then
    \* The test suite (src/src/pti/suite.rs).
    suite,              \* a Suite
    returned,           \* history: the <<path, id>> of every put that returned Ok(TestRef { id })
    nputs,              \* history: the put calls made
    last_put,           \* history: the last put call: its result, whether its path
                        \* had been returned a TestRef before, and whether its path
                        \* goes on from the path of a test
    \* The string pool with its hash table (src/src/pti/string_pool.rs).
    string_pool,        \* a Pool
    hashes,             \* the DefaultHasher hash of each string that was hashed
    pool_returned,      \* history: the <<string, Ref, Idx>> of every put that returned Ok
    pool_reput,         \* history: the last put was of a string that was put before
    pool_panicked,      \* a put has panicked
    fill,               \* a second pool, filled with strings of one hash
    \* A Revision and its JSON (src/src/pti/sut.rs).
    sut_in,             \* the text given to serde_json::from_str, if any
    sut_rev,            \* the Revision at hand: the result of from_str, or a value
    sut_out,            \* the text that serde_json::to_string made of sut_rev
    sut_back,           \* the result of from_str on sut_out
    \* The sampler of the suite (src/src/pti/suite.rs).
    sampler,            \* a Sampler, when Sampler::new was called
    last_sample,        \* history: the two draws of the last sample call and its result
    nsamples            \* history: the sample calls made

buildVars == <<phase, disk, state, building, building_permit, building_waiters,
               pc, task_rev, task_id, ret, chosen, chosen_run, attempts, write_failed>>

runnerVars == <<rstate, stream, events, proc, kill_task, nlines, nerrlines,
                starts, occurred, done_seen, open_at_exit, exit_state>>

suiteVars == <<suite, returned, nputs, last_put>>

poolVars == <<string_pool, hashes, pool_returned, pool_reput, pool_panicked, fill>>

sutVars == <<sut_in, sut_rev, sut_out, sut_back>>

samplerVars == <<sampler, last_sample, nsamples>>

vars == <<buildVars, runnerVars, suiteVars, poolVars, sutVars, samplerVars>>

----------------------------------------------------------------------------
\* Log entries (BuildLogEntry) and their JSON lines.

CreateEntry(id, rev) == [id |-> id, type |-> "Create", rev |-> rev, success |-> FALSE]
CompleteEntry(id, success) == [id |-> id, type |-> "Complete", rev |-> NoRev, success |-> success]
UseEntry(id) == [id |-> id, type |-> "Use", rev |-> NoRev, success |-> FALSE]
ClearFailEntry(id) == [id |-> id, type |-> "ClearFail", rev |-> NoRev, success |-> FALSE]

\* serde_json::to_string of a BuildLogEntry: the fields in order, the tag
\* "type" flattened into the object.
ToJson(e) ==
    CASE e.type = "Create" -> <<e.id, "Create", e.rev>>
      [] e.type = "Complete" -> <<e.id, "Complete", IF e.success THEN "true" ELSE "false">>
      [] OTHER -> <<e.id, e.type>>

\* A line that is no JSON of a BuildLogEntry.
Garbage == <<0, "#">>

\* serde_json::from_str::<BuildLogEntry>.
FromJson(line) ==
    IF Len(line) = 3 /\ line[2] = "Create" /\ line[3] \in Revs
    THEN [ok |-> TRUE, entry |-> CreateEntry(line[1], line[3])]
    ELSE IF Len(line) = 3 /\ line[2] = "Complete" /\ line[3] \in {"true", "false"}
    THEN [ok |-> TRUE, entry |-> CompleteEntry(line[1], line[3] = "true")]
    ELSE IF Len(line) = 2 /\ line[2] = "Use"
    THEN [ok |-> TRUE, entry |-> UseEntry(line[1])]
    ELSE IF Len(line) = 2 /\ line[2] = "ClearFail"
    THEN [ok |-> TRUE, entry |-> ClearFailEntry(line[1])]
    ELSE [ok |-> FALSE, entry |-> UseEntry(0)]

----------------------------------------------------------------------------
\* BuildMgrState.

EmptyMap == [x \in {} |-> 0]

DefaultState == [builds_by_id |-> EmptyMap, builds_by_rev |-> EmptyMap, next_build |-> 1]

Max(a, b) == IF a >= b THEN a ELSE b

NewBuild(id, rev) == [id |-> id, rev |-> rev, status |-> "Pending"]

SetStatus(s, id, status) ==
    [s EXCEPT !.builds_by_id = [@ EXCEPT ![id] = [@ EXCEPT !.status = status]]]

MapPut(m, k, v) == [x \in DOMAIN m \cup {k} |-> IF x = k THEN v ELSE m[x]]

\* apply_log_entry without the test of lines 89-93: or_insert keeps a known
\* build, and_modify skips an unknown one.
ApplyLogEntry_NoCheck(s, e) ==
    LET known == e.id \in DOMAIN s.builds_by_id IN
    CASE e.type = "Create" ->
            [ok |-> TRUE,
             state |-> [builds_by_id |-> IF known THEN s.builds_by_id
                                         ELSE MapPut(s.builds_by_id, e.id, NewBuild(e.id, e.rev)),
                        builds_by_rev |-> MapPut(s.builds_by_rev, e.rev, e.id),
                        next_build |-> Max(s.next_build, e.id + 1)]]
      [] e.type = "Complete" /\ known ->
            [ok |-> TRUE, state |-> SetStatus(s, e.id, IF e.success THEN "Ok" ELSE "Fail")]
      [] e.type = "ClearFail" /\ known /\ s.builds_by_id[e.id].status = "Fail" ->
            [ok |-> TRUE, state |-> SetStatus(s, e.id, "Pending")]
      [] OTHER -> [ok |-> TRUE, state |-> s]

\* apply_log_entry without the insert into builds_by_rev of line 97.
ApplyLogEntry_NoRevMap(s, e) ==
    LET is_vacant == e.id \notin DOMAIN s.builds_by_id
        is_create == e.type = "Create"
    IN  IF is_vacant # is_create THEN [ok |-> FALSE, state |-> s]
        ELSE IF is_create
        THEN [ok |-> TRUE,
              state |-> [s EXCEPT !.builds_by_id = MapPut(@, e.id, NewBuild(e.id, e.rev)),
                                  !.next_build = Max(@, e.id + 1)]]
        ELSE ApplyLogEntry_NoCheck(s, e)

\* apply_log_entry with a ClearFail that resets every status, not only Fail
\* (lines 117-121 without the test of line 118).
ApplyLogEntry_ClearAny(s, e) ==
    LET is_vacant == e.id \notin DOMAIN s.builds_by_id
        is_create == e.type = "Create"
    IN  IF is_vacant # is_create
        THEN [ok |-> FALSE, state |-> s]
        ELSE CASE e.type = "Create" ->
                    [ok |-> TRUE,
                     state |-> [builds_by_id |-> MapPut(s.builds_by_id, e.id, NewBuild(e.id, e.rev)),
                                builds_by_rev |-> MapPut(s.builds_by_rev, e.rev, e.id),
                                next_build |-> Max(s.next_build, e.id + 1)]]
               [] e.type = "Complete" ->
                    [ok |-> TRUE, state |-> SetStatus(s, e.id, IF e.success THEN "Ok" ELSE "Fail")]
               [] e.type = "Use" ->
                    [ok |-> TRUE, state |-> s]
               [] OTHER ->
                    [ok |-> TRUE, state |-> SetStatus(s, e.id, "Pending")]

\* apply_log_entry without the update of next_build of line 98.
ApplyLogEntry_NoNext(s, e) ==
    LET is_vacant == e.id \notin DOMAIN s.builds_by_id
        is_create == e.type = "Create"
    IN  IF is_vacant # is_create
        THEN [ok |-> FALSE, state |-> s]
        ELSE CASE e.type = "Create" ->
                    [ok |-> TRUE,
                     state |-> [builds_by_id |-> MapPut(s.builds_by_id, e.id, NewBuild(e.id, e.rev)),
                                builds_by_rev |-> MapPut(s.builds_by_rev, e.rev, e.id),
                                next_build |-> s.next_build]]
               [] e.type = "Complete" ->
                    [ok |-> TRUE, state |-> SetStatus(s, e.id, IF e.success THEN "Ok" ELSE "Fail")]
               [] e.type = "Use" ->
                    [ok |-> TRUE, state |-> s]
               [] OTHER ->
                    [ok |-> TRUE,
                     state |-> IF s.builds_by_id[e.id].status = "Fail"
                               THEN SetStatus(s, e.id, "Pending") ELSE s]

\* BuildMgrState::apply_log_entry: [ok, state].  The entry of the map is
\* or_insert'ed for Create and and_modify'ed for the others.
ApplyLogEntry(s, e) ==
    LET is_vacant == e.id \notin DOMAIN s.builds_by_id
        is_create == e.type = "Create"
    IN  IF is_vacant # is_create
        THEN [ok |-> FALSE, state |-> s]
        ELSE CASE e.type = "Create" ->
                    [ok |-> TRUE,
                     state |-> [builds_by_id |-> MapPut(s.builds_by_id, e.id, NewBuild(e.id, e.rev)),
                                builds_by_rev |-> MapPut(s.builds_by_rev, e.rev, e.id),
                                next_build |-> Max(s.next_build, e.id + 1)]]
               [] e.type = "Complete" ->
                    [ok |-> TRUE, state |-> SetStatus(s, e.id, IF e.success THEN "Ok" ELSE "Fail")]
               [] e.type = "Use" ->
                    [ok |-> TRUE, state |-> s]
               [] OTHER ->
                    [ok |-> TRUE,
                     state |-> IF s.builds_by_id[e.id].status = "Fail"
                               THEN SetStatus(s, e.id, "Pending") ELSE s]

----------------------------------------------------------------------------
\* BuildMgr::new.

RECURSIVE ReadLines(_, _, _)
\* The closure of lines 159-166: every line is parsed and applied to the
\* local `state`; the first error ends the loop.  Nothing resets `state`.
ReadLines(s, lines, k) ==
    IF k > Len(lines) THEN [state |-> s, truncate |-> FALSE]
    ELSE LET p == FromJson(lines[k]) IN
         IF ~p.ok THEN [state |-> s, truncate |-> TRUE]
         ELSE LET a == ApplyLogEntry(s, p.entry) IN
              IF ~a.ok THEN [state |-> s, truncate |-> TRUE]
              ELSE ReadLines(a.state, lines, k + 1)

\* Lines 140-172: the state and the truncate flag after reading the log.
ReadBuildLog(lines) == ReadLines(DefaultState, lines, 1)

\* Lines 174-180: OpenOptions::new().append(true).create(true)
\* .truncate(truncate).open().  std::fs::OpenOptions refuses truncate(true)
\* together with append(true) with ErrorKind::InvalidInput before it touches
\* the file, so the open fails exactly when truncate is set.
OpenBuildLog(lines, truncate) ==
    IF truncate THEN [ok |-> FALSE, disk |-> lines]
    ELSE [ok |-> TRUE, disk |-> lines]

----------------------------------------------------------------------------
\* BuildMgr::commit_build_log_entry: serialize, write the line, apply.
\* write_ok is the outcome of writeln!.

\* commit_build_log_entry with the result of writeln! dropped.
CommitBuildLogEntry_IgnoreWrite(s, lines, e, write_ok) ==
    LET a == ApplyLogEntry(s, e) IN
    [ok |-> a.ok, state |-> a.state,
     disk |-> IF write_ok THEN Append(lines, ToJson(e)) ELSE lines]

CommitBuildLogEntry(s, lines, e, write_ok) ==
    IF ~write_ok
    THEN [ok |-> FALSE, state |-> s, disk |-> lines]
    ELSE LET a == ApplyLogEntry(s, e) IN
         [ok |-> a.ok, state |-> a.state, disk |-> Append(lines, ToJson(e))]

\* BuildMgr::get_artefact_path: artefact_path joined with the decimal id.
GetArtefactPath(id) == <<"artefact_path", id>>

Unset == [tag |-> "unset", path |-> <<>>]
None == [tag |-> "None", path |-> <<>>]
Some(path) == [tag |-> "Some", path |-> path]

----------------------------------------------------------------------------
\* tokio::sync::Notify.

\* A notify_one that is lost: no waiter is woken and no permit is stored.
NotifyOne_Lost(pcs) ==
    [pc |-> pcs, waiters |-> building_waiters, permit |-> building_permit]

\* Notify::notify_one on building_notify: the oldest waiter is woken, or,
\* with no waiter, one permit is stored.
NotifyOne(pcs) ==
    IF building_waiters # <<>>
    THEN [pc |-> [pcs EXCEPT ![Head(building_waiters)] = "woken_building"],
          waiters |-> Tail(building_waiters),
          permit |-> building_permit]
    ELSE [pc |-> pcs, waiters |-> building_waiters, permit |-> TRUE]

\* notify_one in the place of notify_waiters: a single waiter is woken.
NotifyWaiters_One(pcs, id) ==
    LET ws == {u \in Tasks : pcs[u] = "wait_status" /\ task_id[u] = id} IN
    IF ws = {} THEN pcs
    ELSE [pcs EXCEPT ![CHOOSE u \in ws : TRUE] = "woken_status"]

\* Notify::notify_waiters on the status_notify of build id: every future
\* that waits on it is woken; no permit is stored.
NotifyWaiters(pcs, id) ==
    [u \in Tasks |-> IF pcs[u] = "wait_status" /\ task_id[u] = id
                     THEN "woken_status" ELSE pcs[u]]

----------------------------------------------------------------------------
\* BuildMgr::get_or_make_build.

RECURSIVE ScanId(_, _)
\* Lines 220-223: the first id from next_build on that is no key of builds_by_id.
ScanId(s, id) == IF id \in DOMAIN s.builds_by_id THEN ScanId(s, id + 1) ELSE id

\* Lines 220-224 without the advance of next_build.
Allocate_NoAdvance(s) == [id |-> ScanId(s, s.next_build), state |-> s]

\* Lines 220-224: the fresh id, and the state with next_build past it.
Allocate(s) ==
    LET id == ScanId(s, s.next_build) IN
    [id |-> id, state |-> [s EXCEPT !.next_build = id + 1]]

\* Line 219: the id of the revision, 0 for None.
LookupRev(s, rev) == IF rev \in DOMAIN s.builds_by_rev THEN s.builds_by_rev[rev] ELSE 0

Bump(n) == IF n >= 2 THEN 2 ELSE n + 1

\* Lines 239-244 entered without the test of self.building.
AcquireBuilding_NoWait(t, id) ==
    /\ building' = TRUE
    /\ pc' = [pc EXCEPT ![t] = "in_build"]
    /\ attempts' = [attempts EXCEPT ![id] = Bump(@)]
    /\ UNCHANGED <<building_permit, building_waiters>>

\* Lines 239-244: `while self.building { notified().await }`, then
\* self.building = true and the call of build_inner, up to its first await.
\* A stored permit lets the first notified() return at once; the loop then
\* waits on a second one.
AcquireBuilding(t, id) ==
    IF building
    THEN /\ pc' = [pc EXCEPT ![t] = "wait_building"]
         /\ building_waiters' = Append(building_waiters, t)
         /\ building_permit' = FALSE
         /\ UNCHANGED <<building, attempts>>
    ELSE /\ building' = TRUE
         /\ pc' = [pc EXCEPT ![t] = "in_build"]
         /\ attempts' = [attempts EXCEPT ![id] = Bump(@)]
         /\ UNCHANGED <<building_permit, building_waiters>>

\* The loop of lines 234-275 with a Building record taken for Pending.
LoopTop_Race(t, id, s) ==
    LET status == s.builds_by_id[id].status IN
    IF status \in {"Pending", "Building"}
    THEN /\ state' = SetStatus(s, id, "Building")
         /\ AcquireBuilding(t, id)
         /\ ret' = [ret EXCEPT ![t] = Unset]
    ELSE /\ state' = s
         /\ pc' = [pc EXCEPT ![t] = "done"]
         /\ ret' = [ret EXCEPT ![t] = IF status = "Ok" THEN Some(GetArtefactPath(id)) ELSE None]
         /\ UNCHANGED <<building, building_permit, building_waiters, attempts>>

\* The loop of lines 234-275 with a Fail record built again like a Pending one.
LoopTop_RetryFail(t, id, s) ==
    LET status == s.builds_by_id[id].status IN
    IF status \in {"Pending", "Fail"}
    THEN /\ state' = SetStatus(s, id, "Building")
         /\ AcquireBuilding(t, id)
         /\ ret' = [ret EXCEPT ![t] = Unset]
    ELSE IF status = "Building"
    THEN /\ state' = s
         /\ pc' = [pc EXCEPT ![t] = "wait_status"]
         /\ ret' = [ret EXCEPT ![t] = Unset]
         /\ UNCHANGED <<building, building_permit, building_waiters, attempts>>
    ELSE /\ state' = s
         /\ pc' = [pc EXCEPT ![t] = "done"]
         /\ ret' = [ret EXCEPT ![t] = Some(GetArtefactPath(id))]
         /\ UNCHANGED <<building, building_permit, building_waiters, attempts>>

\* The top of the loop of lines 234-275 for build id, s being self.state:
\* Pending starts the build, Building waits on status_notify, Ok and Fail
\* return.
LoopTop(t, id, s) ==
    LET status == s.builds_by_id[id].status IN
    IF status = "Pending"
    THEN /\ state' = SetStatus(s, id, "Building")
         /\ AcquireBuilding(t, id)
         /\ ret' = [ret EXCEPT ![t] = Unset]
    ELSE IF status = "Building"
    THEN /\ state' = s
         /\ pc' = [pc EXCEPT ![t] = "wait_status"]
         /\ ret' = [ret EXCEPT ![t] = Unset]
         /\ UNCHANGED <<building, building_permit, building_waiters, attempts>>
    ELSE /\ state' = s
         /\ pc' = [pc EXCEPT ![t] = "done"]
         /\ ret' = [ret EXCEPT ![t] = IF status = "Ok" THEN Some(GetArtefactPath(id)) ELSE None]
         /\ UNCHANGED <<building, building_permit, building_waiters, attempts>>

\* A call of get_or_make_build(rev) by task t, up to its first await or its
\* return (lines 218-241, 262-275).  write_ok is the outcome of the write of
\* the Create line, if one is written.  The calls of a run are numbered in
\* the order in which they are made, and every task makes one call per run.
Call(t, rev, write_ok) ==
    /\ phase = "running"
    /\ pc[t] = "idle"
    /\ \A u \in Tasks : u < t => pc[u] # "idle"
    /\ task_rev' = [task_rev EXCEPT ![t] = rev]
    /\ LET found == LookupRev(state, rev) IN
       IF found # 0
       THEN /\ write_ok
            /\ task_id' = [task_id EXCEPT ![t] = found]
            /\ LoopTop(t, found, state)
            /\ UNCHANGED <<disk, chosen, chosen_run, write_failed>>
       ELSE LET id == Allocate(state).id
                c == CommitBuildLogEntry(Allocate(state).state, disk, CreateEntry(id, rev), write_ok)
            IN  /\ id <= MaxId
                /\ write_ok => Len(disk) < MaxLog
                /\ disk' = c.disk
                /\ chosen' = chosen \cup {id}
                /\ chosen_run' = chosen_run \cup {id}
                /\ write_failed' = (write_failed \/ ~write_ok)
                /\ IF c.ok
                   THEN /\ task_id' = [task_id EXCEPT ![t] = id]
                        /\ LoopTop(t, id, c.state)
                   ELSE /\ state' = c.state
                        /\ task_id' = [task_id EXCEPT ![t] = 0]
                        /\ pc' = [pc EXCEPT ![t] = "done"]
                        /\ ret' = [ret EXCEPT ![t] = None]
                        /\ UNCHANGED <<building, building_permit, building_waiters, attempts>>
    /\ UNCHANGED phase
    /\ UNCHANGED <<runnerVars, suiteVars, poolVars, sutVars, samplerVars>>

\* Lines 239-242 after a wake-up of building_notify.
ResumeBuilding(t) ==
    /\ phase = "running"
    /\ pc[t] = "woken_building"
    /\ AcquireBuilding(t, task_id[t])
    /\ UNCHANGED <<phase, disk, state, task_rev, task_id, ret, chosen, chosen_run, write_failed>>
    /\ UNCHANGED <<runnerVars, suiteVars, poolVars, sutVars, samplerVars>>

\* The return of build_inner without lines 257-259.
BuildInnerReturn_NoForce(t, success, write_ok) ==
    /\ phase = "running"
    /\ pc[t] = "in_build"
    /\ write_ok => Len(disk) < MaxLog
    /\ LET id == task_id[t]
           c == CommitBuildLogEntry(state, disk, CompleteEntry(id, success), write_ok)
           s2 == c.state
           n == NotifyOne(pc)
       IN  /\ building' = FALSE
           /\ building_waiters' = n.waiters
           /\ building_permit' = n.permit
           /\ disk' = c.disk
           /\ state' = s2
           /\ write_failed' = (write_failed \/ ~write_ok)
           /\ pc' = [NotifyWaiters(n.pc, id) EXCEPT ![t] = "done"]
           /\ ret' = [ret EXCEPT ![t] = IF s2.builds_by_id[id].status = "Ok"
                                         THEN Some(GetArtefactPath(id)) ELSE None]
    /\ UNCHANGED <<phase, task_rev, task_id, chosen, chosen_run, attempts>>
    /\ UNCHANGED <<runnerVars, suiteVars, poolVars, sutVars, samplerVars>>

\* build_inner(id) returns to task t with Ok (success) or Err, and the task
\* runs to its return (lines 244-261, 270-274): the flag is released, one
\* waiter for it is notified, Complete is committed, a failed commit forces
\* Fail, the waiters on the build are woken.
BuildInnerReturn(t, success, write_ok) ==
    /\ phase = "running"
    /\ pc[t] = "in_build"
    /\ write_ok => Len(disk) < MaxLog
    /\ LET id == task_id[t]
           c == CommitBuildLogEntry(state, disk, CompleteEntry(id, success), write_ok)
           s2 == IF c.ok THEN c.state ELSE SetStatus(c.state, id, "Fail")
           n == NotifyOne(pc)
       IN  /\ building' = FALSE
           /\ building_waiters' = n.waiters
           /\ building_permit' = n.permit
           /\ disk' = c.disk
           /\ state' = s2
           /\ write_failed' = (write_failed \/ ~write_ok)
           /\ pc' = [NotifyWaiters(n.pc, id) EXCEPT ![t] = "done"]
           /\ ret' = [ret EXCEPT ![t] = IF s2.builds_by_id[id].status = "Ok"
                                         THEN Some(GetArtefactPath(id)) ELSE None]
    /\ UNCHANGED <<phase, task_rev, task_id, chosen, chosen_run, attempts>>
    /\ UNCHANGED <<runnerVars, suiteVars, poolVars, sutVars, samplerVars>>

\* Lines 262-268 after a wake-up of the build's status_notify: `continue`.
ResumeStatus(t) ==
    /\ phase = "running"
    /\ pc[t] = "woken_status"
    /\ LoopTop(t, task_id[t], state)
    /\ UNCHANGED <<phase, disk, task_rev, task_id, chosen, chosen_run, write_failed>>
    /\ UNCHANGED <<runnerVars, suiteVars, poolVars, sutVars, samplerVars>>

\* The future of call t is dropped at one of its awaits (lines 240, 244,
\* 265).  Nothing of get_or_make_build runs for it any more: there is no
\* guard that would reset self.building or the status of the build.  The
\* Notified of a waiter leaves the list of waiters; one that was woken by
\* notify_one and is dropped before it ran hands the notification on.  The
\* build script of a dropped build_inner is killed (kill_on_drop, line 300).
Cancel(t) ==
    /\ phase = "running"
    /\ pc[t] \in {"wait_building", "woken_building", "in_build", "wait_status", "woken_status"}
    /\ LET n == IF pc[t] = "woken_building" THEN NotifyOne(pc)
                ELSE [pc |-> pc,
                      waiters |-> SelectSeq(building_waiters, LAMBDA u : u # t),
                      permit |-> building_permit]
       IN  /\ pc' = [n.pc EXCEPT ![t] = "cancelled"]
           /\ building_waiters' = n.waiters
           /\ building_permit' = n.permit
    /\ UNCHANGED <<phase, disk, state, building, task_rev, task_id, ret, chosen, chosen_run,
                   attempts, write_failed>>
    /\ UNCHANGED <<runnerVars, suiteVars, poolVars, sutVars, samplerVars>>

\* BuildMgr::clear_fail(id).
ClearFail(id, write_ok) ==
    /\ phase = "running"
    /\ write_ok => Len(disk) < MaxLog
    /\ LET c == CommitBuildLogEntry(state, disk, ClearFailEntry(id), write_ok) IN
       /\ disk' = c.disk
       /\ state' = c.state
    /\ write_failed' = (write_failed \/ ~write_ok)
    /\ UNCHANGED <<phase, building, building_permit, building_waiters, pc, task_rev,
                   task_id, ret, chosen, chosen_run, attempts>>
    /\ UNCHANGED <<runnerVars, suiteVars, poolVars, sutVars, samplerVars>>

----------------------------------------------------------------------------
\* The subprocess runner (src/src/rundeqp.rs).
\*
\* A line of the child's output is a sequence of tokens, every token a piece
\* of text the parser tests as a whole.  Time is counted in ticks of the
\* tokio timer.  The generator of run_deqp runs without interruption from
\* one suspension point (a yield or the select) to the next.

\* Bound: the lines that are read in a run, stdout and stderr together.
MaxLines == 3

\* timeout_duration, in ticks.
TimeoutTicks == 1

TestNames == {"a", "b"}

\* The keys of RESULT_VARIANTS; the value of a key is the variant of its name.
RESULT_VARIANTS ==
    {"Pass", "CompatibilityWarning", "QualityWarning", "NotSupported", "Fail",
     "ResourceError", "InternalError", "Crash", "Timeout", "Waiver"}

\* The texts the child writes to stdout and to stderr.
StdoutTexts ==
    {<<"TEST: ", "a">>, <<"Test case '", "b", "'..">>,
     <<"  ", "Pass", " ", "(", "ok", ")">>, <<"  ", "Fail">>,
     <<"DONE!">>, <<"#">>}
StderrTexts == {<<"FATAL ERROR: ", "x">>, <<"#">>}

\* Result<Option<String>, io::Error> of next_line().
Line(text) == [kind |-> "line", text |-> text]
Eof == [kind |-> "eof", text |-> <<>>]
ReadErr == [kind |-> "err", text |-> <<>>]

\* Option<DeqpError>::None, Option<(String, OffsetDateTime)>::None, and the
\* None of Option<DeqpEvent>.
NoError == "none"
NoTest == "none"
NoEvent == [type |-> "none"]

LaunchEvent == [type |-> "Launch"]
TestEvent(name, variant, stdout, full_stdout, stderr_) ==
    [type |-> "Test", name |-> name, variant |-> variant, stdout |-> stdout,
     full_stdout |-> full_stdout, stderr |-> stderr_]
FinishedEvent(error, stdout, stderr_) ==
    [type |-> "Finished", error |-> error, stdout |-> stdout, stderr |-> stderr_]

\* The fields of RunDeqpState before run_deqp is called.
NoRState ==
    [timeout |-> 0, stdout_reader |-> FALSE, stderr_reader |-> FALSE,
     stdout |-> <<>>, stderr |-> <<>>, crash |-> NoError, current_test |-> NoTest,
     tests_done |-> FALSE, tests_run |-> FALSE, child |-> FALSE]

\* RunDeqpState::new after a successful spawn (lines 93-107).
NewRState ==
    [timeout |-> TimeoutTicks, stdout_reader |-> TRUE, stderr_reader |-> TRUE,
     stdout |-> <<>>, stderr |-> <<>>, crash |-> NoError, current_test |-> NoTest,
     tests_done |-> FALSE, tests_run |-> FALSE, child |-> TRUE]

\* str::strip_prefix on the first token: the rest, or <<>> with ok = FALSE.
StripPrefix(text, prefix) ==
    IF Len(text) > 0 /\ text[1] = prefix
    THEN [ok |-> TRUE, rest |-> Tail(text)]
    ELSE [ok |-> FALSE, rest |-> <<>>]

StripSuffix(text, suffix) ==
    IF Len(text) > 0 /\ text[Len(text)] = suffix
    THEN [ok |-> TRUE, rest |-> SubSeq(text, 1, Len(text) - 1)]
    ELSE [ok |-> FALSE, rest |-> <<>>]

RECURSIVE TrimStart(_)
TrimStart(text) == IF Len(text) > 0 /\ text[1] = " " THEN TrimStart(Tail(text)) ELSE text

RECURSIVE TrimEnd(_)
TrimEnd(text) ==
    IF Len(text) > 0 /\ text[Len(text)] = " "
    THEN TrimEnd(SubSeq(text, 1, Len(text) - 1)) ELSE text

\* str::trim.
Trim(text) == TrimEnd(TrimStart(text))

\* Lines 141-147: the variant and the short report of a result line.
ParseResult(text) ==
    LET two == StripPrefix(text, "  ")
        hit == two.ok /\ Len(two.rest) > 0 /\ two.rest[1] \in RESULT_VARIANTS
        report == IF hit THEN Trim(Tail(two.rest)) ELSE <<>>
        wrapped == Len(report) > 0 /\ report[1] = "(" /\ report[Len(report)] = ")"
    IN  [ok |-> hit,
         variant |-> IF hit THEN two.rest[1] ELSE "",
         report |-> IF wrapped THEN SubSeq(report, 2, Len(report) - 1) ELSE report]

\* Lines 175-179: the name of a test-start line.
ParseStart(text) ==
    LET a == StripPrefix(text, "TEST: ")
        b == StripPrefix(text, "Test case '")
        c == IF b.ok THEN StripSuffix(b.rest, "'..") ELSE b
    IN  IF a.ok /\ Len(a.rest) = 1 THEN [ok |-> TRUE, name |-> a.rest[1]]
        ELSE IF c.ok /\ Len(c.rest) = 1 THEN [ok |-> TRUE, name |-> c.rest[1]]
        ELSE [ok |-> FALSE, name |-> NoTest]

\* RunDeqpState::handle_stdout_error.
HandleStdoutError(s, error) ==
    [s EXCEPT !.stdout_reader = FALSE,
              !.crash = IF s.crash = NoError THEN error ELSE s.crash]

\* handle_stdout_line without the test of tests_done (lines 135-139).
HandleStdoutLine_IgnoreDone(s, l) ==
    IF l.kind = "eof"
    THEN [state |-> [s EXCEPT !.stdout_reader = FALSE], event |-> NoEvent, error |-> NoError]
    ELSE IF l.kind = "err"
    THEN [state |-> HandleStdoutError(s, "ReadFailed"), event |-> NoEvent, error |-> "ReadFailed"]
    ELSE IF ParseResult(l.text).ok
    THEN LET r == ParseResult(l.text)
             s1 == [s EXCEPT !.timeout = TimeoutTicks, !.stdout = Append(@, l.text)]
         IN  IF s.current_test = NoTest
             THEN [state |-> HandleStdoutError(s1, "ParseError"),
                   event |-> NoEvent, error |-> "ParseError"]
             ELSE [state |-> [s1 EXCEPT !.current_test = NoTest, !.stdout = <<>>],
                   event |-> TestEvent(s.current_test, r.variant, r.report, s1.stdout, <<>>),
                   error |-> NoError]
    ELSE IF ParseStart(l.text).ok
    THEN [state |-> [s EXCEPT !.stdout = <<l.text>>,
                              !.current_test = ParseStart(l.text).name,
                              !.tests_run = TRUE],
          event |-> IF s.current_test = NoTest THEN NoEvent
                    ELSE TestEvent(s.current_test, "InternalError", <<>>, s.stdout, <<>>),
          error |-> NoError]
    ELSE [state |-> [s EXCEPT !.stdout = Append(@, l.text),
                              !.tests_done = (l.text = <<"DONE!">>)],
          event |-> NoEvent, error |-> NoError]

\* RunDeqpState::handle_stdout_line: the state after it, the event it
\* returns, and the error it has met.
HandleStdoutLine(s, l) ==
    IF l.kind = "eof"
    THEN [state |-> [s EXCEPT !.stdout_reader = FALSE], event |-> NoEvent, error |-> NoError]
    ELSE IF l.kind = "err"
    THEN [state |-> HandleStdoutError(s, "ReadFailed"), event |-> NoEvent, error |-> "ReadFailed"]
    ELSE IF s.tests_done
    THEN [state |-> [s EXCEPT !.stdout = Append(@, l.text)], event |-> NoEvent, error |-> NoError]
    ELSE IF ParseResult(l.text).ok
    THEN LET r == ParseResult(l.text)
             s1 == [s EXCEPT !.timeout = TimeoutTicks, !.stdout = Append(@, l.text)]
         IN  IF s.current_test = NoTest
             THEN [state |-> HandleStdoutError(s1, "ParseError"),
                   event |-> NoEvent, error |-> "ParseError"]
             ELSE [state |-> [s1 EXCEPT !.current_test = NoTest, !.stdout = <<>>],
                   event |-> TestEvent(s.current_test, r.variant, r.report, s1.stdout, <<>>),
                   error |-> NoError]
    ELSE IF ParseStart(l.text).ok
    THEN [state |-> [s EXCEPT !.stdout = <<l.text>>,
                              !.current_test = ParseStart(l.text).name,
                              !.tests_run = TRUE],
          event |-> IF s.current_test = NoTest THEN NoEvent
                    ELSE TestEvent(s.current_test, "InternalError", <<>>, s.stdout, <<>>),
          error |-> NoError]
    ELSE [state |-> [s EXCEPT !.stdout = Append(@, l.text),
                              !.tests_done = (l.text = <<"DONE!">>)],
          event |-> NoEvent, error |-> NoError]

\* str::contains("FATAL ERROR: ").
IsFatal(text) == \E k \in 1..Len(text) : text[k] = "FATAL ERROR: "

\* RunDeqpState::handle_stderr_line: the state after it and the error it
\* has met.
HandleStderrLine(s, l) ==
    IF l.kind = "eof"
    THEN [state |-> [s EXCEPT !.stderr_reader = FALSE], error |-> NoError]
    ELSE IF l.kind = "err"
    THEN [state |-> [s EXCEPT !.stderr_reader = FALSE,
                              !.crash = IF s.crash = NoError THEN "ReadFailed" ELSE s.crash],
          error |-> "ReadFailed"]
    ELSE [state |-> [s EXCEPT !.crash = IF IsFatal(l.text) /\ s.crash = NoError
                                        THEN "DeqpFatalError" ELSE s.crash,
                              !.stderr = Append(@, l.text)],
          error |-> IF IsFatal(l.text) THEN "DeqpFatalError" ELSE NoError]

\* The arm of the child's wait() if it reset the Sleep as line 148 does.
HandleChildExit_Rearm(s, result) ==
    [s EXCEPT !.child = FALSE, !.timeout = TimeoutTicks,
              !.crash = CASE result = "success" -> s.crash
                          [] result = "fail" -> "Crash"
                          [] OTHER -> IF s.crash = NoError THEN "WaitFailed" ELSE s.crash]

\* Lines 254-271: the arm of the child's wait(); result is "success",
\* "fail" (Ok of a status that is no success) or "wait_err".
HandleChildExit(s, result) ==
    [s EXCEPT !.child = FALSE,
              !.crash = CASE result = "success" -> s.crash
                          [] result = "fail" -> "Crash"
                          [] OTHER -> IF s.crash = NoError THEN "WaitFailed" ELSE s.crash]

\* Lines 272-288: the arm of the timeout, the child handle being there.
HandleTimeout(s) ==
    [s EXCEPT !.child = FALSE, !.stdout_reader = FALSE, !.stderr_reader = FALSE,
              !.crash = "Timeout"]

\* The condition of a loop that ends when the child handle is gone.
LoopCond_ChildOnly(s) == s.child

\* Line 244: the condition of the select loop.
LoopCond(s) == s.stdout_reader \/ s.stderr_reader \/ s.child

\* Lines 292-331 without the defaults of lines 319-325.
LoopExit_NoDefault(s) ==
    IF s.current_test # NoTest
    THEN LET error == IF s.crash = NoError THEN "Crash" ELSE s.crash IN
         [state |-> [s EXCEPT !.current_test = NoTest,
                              !.crash = IF error = "Timeout" THEN "Timeout" ELSE "Incomplete",
                              !.stdout = <<>>, !.stderr = <<>>],
          event |-> TestEvent(s.current_test,
                              IF error = "Timeout" THEN "Timeout" ELSE "Crash",
                              <<>>, s.stdout, s.stderr)]
    ELSE [state |-> [s EXCEPT !.crash = NoError, !.stdout = <<>>, !.stderr = <<>>],
          event |-> FinishedEvent(s.crash, s.stdout, s.stderr)]

\* Lines 292-331 where the final Test event leaves the latched cause as
\* it is (without lines 294-300).
LoopExit_KeepCause(s) ==
    IF s.current_test # NoTest
    THEN LET error == IF s.crash = NoError THEN "Crash" ELSE s.crash IN
         [state |-> [s EXCEPT !.current_test = NoTest,
                              !.crash = error,
                              !.stdout = <<>>, !.stderr = <<>>],
          event |-> TestEvent(s.current_test,
                              IF error = "Timeout" THEN "Timeout" ELSE "Crash",
                              <<>>, s.stdout, s.stderr)]
    ELSE LET crash == IF s.crash # NoError THEN s.crash
                      ELSE IF ~s.tests_run THEN "NoTestsRun"
                      ELSE IF ~s.tests_done THEN "Incomplete"
                      ELSE NoError
         IN  [state |-> [s EXCEPT !.crash = NoError, !.stdout = <<>>, !.stderr = <<>>],
              event |-> FinishedEvent(crash, s.stdout, s.stderr)]

\* Lines 292-331: the rest of next() after the select loop.
LoopExit(s) ==
    IF s.current_test # NoTest
    THEN LET error == IF s.crash = NoError THEN "Crash" ELSE s.crash IN
         [state |-> [s EXCEPT !.current_test = NoTest,
                              !.crash = IF error = "Timeout" THEN "Timeout" ELSE "Incomplete",
                              !.stdout = <<>>, !.stderr = <<>>],
          event |-> TestEvent(s.current_test,
                              IF error = "Timeout" THEN "Timeout" ELSE "Crash",
                              <<>>, s.stdout, s.stderr)]
    ELSE LET crash == IF s.crash # NoError THEN s.crash
                      ELSE IF ~s.tests_run THEN "NoTestsRun"
                      ELSE IF ~s.tests_done THEN "Incomplete"
                      ELSE NoError
         IN  [state |-> [s EXCEPT !.crash = NoError, !.stdout = <<>>, !.stderr = <<>>],
              event |-> FinishedEvent(crash, s.stdout, s.stderr)]

\* next() from the end of a select arm that has produced `event` (lines 244,
\* 247-249, 292-331): the event is returned, or the loop goes on, or the
\* loop is left.
AfterArm(s, event) ==
    IF event # NoEvent THEN [state |-> s, event |-> event]
    ELSE IF LoopCond(s) THEN [state |-> s, event |-> NoEvent]
    ELSE LoopExit(s)

\* The generator of run_deqp after next() has got to `r`: it yields the
\* event, or it stays in the select.
Yield(r, open, s) ==
    /\ rstate' = r.state
    /\ events' = IF r.event = NoEvent THEN events ELSE Append(events, r.event)
    /\ stream' = IF r.event = NoEvent THEN "select" ELSE "yielded"
    /\ open_at_exit' = (open_at_exit \/ open)
    /\ exit_state' = IF open THEN s ELSE exit_state

\* A test is open and this step leaves the select loop.
LeavesOpen(s, event) == event = NoEvent /\ ~LoopCond(s) /\ s.current_test # NoTest

Occur(error) == IF error = NoError THEN occurred ELSE Append(occurred, error)

\* run_deqp (lines 340-349): RunDeqpState::new spawns the child at once; the
\* generator is made and not yet polled.
RunDeqp(spawn_ok) ==
    /\ stream = "none"
    /\ IF spawn_ok
       THEN /\ rstate' = NewRState
            /\ proc' = "running"
            /\ stream' = "created"
       ELSE /\ rstate' = NoRState
            /\ proc' = "none"
            /\ stream' = "spawn_failed"
    /\ UNCHANGED <<events, kill_task, nlines, nerrlines, starts, occurred, done_seen,
                   open_at_exit, exit_state>>
    /\ UNCHANGED <<buildVars, suiteVars, poolVars, sutVars, samplerVars>>

\* The first poll of a generator that yields Launch without looking at the
\* result of RunDeqpState::new.
PollStart_AlwaysLaunch ==
    /\ stream \in {"created", "spawn_failed"}
    /\ events' = <<LaunchEvent>>
    /\ stream' = "yielded"
    /\ UNCHANGED <<rstate, proc, kill_task, nlines, nerrlines, starts, occurred, done_seen,
                   open_at_exit, exit_state>>
    /\ UNCHANGED <<buildVars, suiteVars, poolVars, sutVars, samplerVars>>

\* The first poll of the stream (lines 351-363).
PollStart ==
    /\ stream \in {"created", "spawn_failed"}
    /\ events' = IF stream = "created" THEN <<LaunchEvent>>
                 ELSE <<FinishedEvent("SpawnFailed", <<>>, <<>>)>>
    /\ stream' = "yielded"
    /\ UNCHANGED <<rstate, proc, kill_task, nlines, nerrlines, starts, occurred, done_seen,
                   open_at_exit, exit_state>>
    /\ UNCHANGED <<buildVars, suiteVars, poolVars, sutVars, samplerVars>>

\* A poll of the stream after a yield (lines 365-372): after Finished the
\* generator returns; else next() is called, which waits in the select or,
\* the loop being over, goes on to the code after it.
PollNext ==
    /\ stream = "yielded"
    /\ IF events[Len(events)].type = "Finished"
       THEN /\ stream' = "returned"
            /\ UNCHANGED <<rstate, events, open_at_exit, exit_state>>
       ELSE Yield(AfterArm(rstate, NoEvent), LeavesOpen(rstate, NoEvent), rstate)
    /\ UNCHANGED <<proc, kill_task, nlines, nerrlines, starts, occurred, done_seen>>
    /\ UNCHANGED <<buildVars, suiteVars, poolVars, sutVars, samplerVars>>

\* The stdout arm of the select (lines 246-250) with the line l.
StdoutArm(l) ==
    /\ stream = "select"
    /\ rstate.stdout_reader
    /\ l.kind = "line" => nlines + nerrlines < MaxLines
    /\ LET h == HandleStdoutLine(rstate, l) IN
       /\ Yield(AfterArm(h.state, h.event), LeavesOpen(h.state, h.event), h.state)
       /\ occurred' = Occur(h.error)
       /\ starts' = IF l.kind = "line" /\ ~rstate.tests_done
                       /\ ~ParseResult(l.text).ok /\ ParseStart(l.text).ok
                    THEN Append(starts, ParseStart(l.text).name) ELSE starts
    /\ nlines' = IF l.kind = "line" THEN nlines + 1 ELSE nlines
    /\ done_seen' = (done_seen \/ l = Line(<<"DONE!">>))
    /\ UNCHANGED <<proc, kill_task, nerrlines>>
    /\ UNCHANGED <<buildVars, suiteVars, poolVars, sutVars, samplerVars>>

\* The stderr arm of the select (lines 251-253) with the line l.
StderrArm(l) ==
    /\ stream = "select"
    /\ rstate.stderr_reader
    /\ l.kind = "line" => nlines + nerrlines < MaxLines
    /\ LET h == HandleStderrLine(rstate, l) IN
       /\ Yield(AfterArm(h.state, NoEvent), LeavesOpen(h.state, NoEvent), h.state)
       /\ occurred' = Occur(h.error)
    /\ nerrlines' = IF l.kind = "line" THEN nerrlines + 1 ELSE nerrlines
    /\ UNCHANGED <<proc, kill_task, nlines, starts, done_seen>>
    /\ UNCHANGED <<buildVars, suiteVars, poolVars, sutVars, samplerVars>>

\* The arm of the child's wait() (lines 254-271).  wait() returns the status
\* of a child that has exited; it can fail at any time, and the Child that
\* is dropped by `self.child = None` while its process runs kills the
\* process (kill_on_drop).
ChildArm(wait_ok) ==
    /\ stream = "select"
    /\ rstate.child
    /\ wait_ok => proc \in {"exited_ok", "exited_fail"}
    /\ LET result == IF ~wait_ok THEN "wait_err"
                     ELSE IF proc = "exited_ok" THEN "success" ELSE "fail"
           s == HandleChildExit(rstate, result)
       IN  /\ Yield(AfterArm(s, NoEvent), LeavesOpen(s, NoEvent), s)
           /\ occurred' = Occur(CASE result = "success" -> NoError
                                  [] result = "fail" -> "Crash"
                                  [] OTHER -> "WaitFailed")
    /\ proc' = IF proc = "running" THEN "killed" ELSE proc
    /\ UNCHANGED <<kill_task, nlines, nerrlines, starts, done_seen>>
    /\ UNCHANGED <<buildVars, suiteVars, poolVars, sutVars, samplerVars>>

\* The arm of the timeout (lines 272-288).  `self.child.take().unwrap()`
\* panics when the child handle is gone; else the child moves into a
\* spawned task that kills it.
TimeoutArm ==
    /\ stream = "select"
    /\ rstate.timeout = 0
    /\ occurred' = Occur("Timeout")
    /\ IF rstate.child
       THEN /\ kill_task' = "pending"
            /\ Yield(AfterArm(HandleTimeout(rstate), NoEvent),
                     LeavesOpen(HandleTimeout(rstate), NoEvent), HandleTimeout(rstate))
       ELSE /\ stream' = "panicked"
            /\ UNCHANGED <<rstate, events, kill_task, open_at_exit, exit_state>>
    /\ UNCHANGED <<proc, nlines, nerrlines, starts, done_seen>>
    /\ UNCHANGED <<buildVars, suiteVars, poolVars, sutVars, samplerVars>>

\* A tick of the timer passes for the Sleep of RunDeqpState::timeout.
Tick ==
    /\ stream \in {"created", "yielded", "select"}
    /\ rstate.timeout > 0
    /\ rstate' = [rstate EXCEPT !.timeout = @ - 1]
    /\ UNCHANGED <<stream, events, proc, kill_task, nlines, nerrlines, starts, occurred,
                   done_seen, open_at_exit, exit_state>>
    /\ UNCHANGED <<buildVars, suiteVars, poolVars, sutVars, samplerVars>>

\* The deqp process exits by itself.
ProcExit(success) ==
    /\ proc = "running"
    /\ proc' = IF success THEN "exited_ok" ELSE "exited_fail"
    /\ UNCHANGED <<rstate, stream, events, kill_task, nlines, nerrlines, starts, occurred,
                   done_seen, open_at_exit, exit_state>>
    /\ UNCHANGED <<buildVars, suiteVars, poolVars, sutVars, samplerVars>>

\* The task spawned at lines 277-281 runs: child.kill().await.
KillTask ==
    /\ kill_task = "pending"
    /\ kill_task' = "done"
    /\ proc' = IF proc = "running" THEN "killed" ELSE proc
    /\ UNCHANGED <<rstate, stream, events, nlines, nerrlines, starts, occurred, done_seen,
                   open_at_exit, exit_state>>
    /\ UNCHANGED <<buildVars, suiteVars, poolVars, sutVars, samplerVars>>

\* The drop of a Child without kill_on_drop: the process is left alone.
DropChild_NoKill(s) == proc

\* What the drop of a RunDeqpState does to the process: a Child that is
\* still held is dropped, and kill_on_drop(true) (line 78) kills its process.
DropChild(s) == IF s.child /\ proc = "running" THEN "killed" ELSE proc

\* The consumer drops the stream: the generator and its RunDeqpState go.
DropStream ==
    /\ stream \in {"created", "spawn_failed", "yielded", "select", "panicked"}
    /\ stream' = "dropped"
    /\ proc' = DropChild(rstate)
    /\ rstate' = [rstate EXCEPT !.child = FALSE, !.stdout_reader = FALSE,
                                !.stderr_reader = FALSE]
    /\ UNCHANGED <<events, kill_task, nlines, nerrlines, starts, occurred, done_seen,
                   open_at_exit, exit_state>>
    /\ UNCHANGED <<buildVars, suiteVars, poolVars, sutVars, samplerVars>>

----------------------------------------------------------------------------
\* The test suite (src/src/pti/suite.rs) over the string pool
\* (src/src/pti/string_pool.rs).
\*
\* A string is the sequence of its characters.  Indices are those of the
\* code, counted from 0; the element i of a Vec is the element i + 1 of its
\* sequence.  Of the pool, the byte buffer and the vector of Refs are
\* modelled; the probe of its hash table is taken by its result, the entry
\* of an equal string if the pool holds one.

\* Bounds: the put calls on a suite and the length of a path.
MaxPuts == 2
MaxPathLen == 3

Chars == {"a", "b", "."}

RECURSIVE StringsOfLen(_)
StringsOfLen(n) ==
    IF n = 0 THEN {<<>>}
    ELSE {Append(str, c) : str \in StringsOfLen(n - 1), c \in Chars}

\* The paths that are put.
Paths == UNION {StringsOfLen(n) : n \in 0..MaxPathLen}

\* Ref::default() and Idx::default().
DefaultRef == [begin |-> 0, end |-> 0]
DefaultIdx == 0

\* Pool::new, without the map.
NewPool == [pool |-> <<>>, strings |-> <<DefaultRef>>]

\* Pool::get.
PoolGet(p, r) == SubSeq(p.pool, r.begin + 1, r.end)

\* Pool::ref_by_idx.
RefByIdx(p, idx) == p.strings[idx + 1]

\* Pool::put without the probe for an equal string (lines 136-148).
PoolPut_NoLookup(p, string) ==
    IF string = <<>>
    THEN [pool |-> p, r |-> DefaultRef, idx |-> DefaultIdx]
    ELSE LET r == [begin |-> Len(p.pool), end |-> Len(p.pool) + Len(string)] IN
         [pool |-> [pool |-> p.pool \o string, strings |-> Append(p.strings, r)],
          r |-> r, idx |-> Len(p.strings)]

\* Pool::put: the pool after it, and the (Ref, Idx) it returns.
PoolPut(p, string) ==
    IF string = <<>>
    THEN [pool |-> p, r |-> DefaultRef, idx |-> DefaultIdx]
    ELSE LET hits == {i \in 1..(Len(p.strings) - 1) : PoolGet(p, RefByIdx(p, i)) = string} IN
         IF hits # {}
         THEN LET i == CHOOSE i \in hits : TRUE IN
              [pool |-> p, r |-> RefByIdx(p, i), idx |-> i]
         ELSE LET r == [begin |-> Len(p.pool), end |-> Len(p.pool) + Len(string)] IN
              [pool |-> [pool |-> p.pool \o string, strings |-> Append(p.strings, r)],
               r |-> r, idx |-> Len(p.strings)]

\* AnyRefPacked, a u32 as its top bit and its low 31 bits.
U31Max == 2147483647
PackNone == [top |-> 1, low |-> U31Max]
PackTest(idx) == [top |-> 0, low |-> idx]
PackGroup(idx) == [top |-> 1, low |-> idx]

AnyNone == [tag |-> "None", idx |-> 0]
AnyTest(idx) == [tag |-> "Test", idx |-> idx]
AnyGroup(idx) == [tag |-> "Group", idx |-> idx]

\* AnyRefPacked::unpack (lines 51-61).
Unpack(packed) ==
    IF packed.top = 0 THEN AnyTest(packed.low)
    ELSE IF packed.low # U31Max THEN AnyGroup(packed.low)
    ELSE AnyNone

\* Suite::new.
NewSuite(separator) ==
    [separator |-> separator,
     tests |-> <<>>,
     groups |-> <<[children |-> <<>>, parent |-> PackNone, name |-> DefaultIdx]>>,
     name_pool |-> NewPool]

\* str::split_once: the split at the first place where the separator stands.
SplitOnce(str, sep) ==
    LET at == {i \in 1..(Len(str) - Len(sep) + 1) : SubSeq(str, i, i + Len(sep) - 1) = sep} IN
    IF at = {} THEN [ok |-> FALSE, name |-> <<>>, remainder |-> <<>>]
    ELSE LET i == CHOOSE i \in at : \A j \in at : i <= j IN
         [ok |-> TRUE, name |-> SubSeq(str, 1, i - 1),
          remainder |-> SubSeq(str, i + Len(sep), Len(str))]

\* The name of a child.
ChildName(s, any) ==
    IF any.tag = "Test" THEN s.tests[any.idx + 1].name ELSE s.groups[any.idx + 1].name

\* The loops of lines 115-130 and 153-167 never finding a child.
FirstChildNamed_None(s, group_idx, name_idx, k) == AnyNone

RECURSIVE FirstChildNamed(_, _, _, _)
\* The loops of lines 115-130 and 153-167: the first child of the group, from
\* child k on, that has the name; both loops end at it.
FirstChildNamed(s, group_idx, name_idx, k) ==
    LET children == s.groups[group_idx + 1].children IN
    IF k > Len(children) THEN AnyNone
    ELSE IF ChildName(s, Unpack(children[k])) = name_idx THEN Unpack(children[k])
    ELSE FirstChildNamed(s, group_idx, name_idx, k + 1)

\* Lines 135-145: a new group under group_idx.
PushGroup(s, group_idx, name_idx) ==
    [s EXCEPT !.groups = Append([@ EXCEPT ![group_idx + 1].children =
                                            Append(@, PackGroup(Len(s.groups)))],
                                [children |-> <<>>, parent |-> PackGroup(group_idx),
                                 name |-> name_idx])]

\* Lines 169-177: a new test under group_idx.
PushTest(s, group_idx, name_idx) ==
    [s EXCEPT !.groups[group_idx + 1].children = Append(@, PackTest(Len(s.tests))),
              !.tests = Append(@, [name |-> name_idx, parent |-> PackGroup(group_idx)])]

RECURSIVE PutFrom(_, _, _)
\* Suite::put without the two conflict errors of lines 117-120 and 160-163.
PutFrom_NoConflict(s, test, group_idx) ==
    LET sp == SplitOnce(test, s.separator) IN
    IF sp.ok
    THEN IF sp.name = <<>>
         THEN [suite |-> s, ok |-> FALSE, id |-> 0]
         ELSE LET pp == PoolPut(s.name_pool, sp.name)
                  s1 == [s EXCEPT !.name_pool = pp.pool]
                  found == FirstChildNamed(s1, group_idx, pp.idx, 1)
              IN  IF found.tag = "Group"
                  THEN PutFrom(s1, sp.remainder, found.idx)
                  ELSE PutFrom(PushGroup(s1, group_idx, pp.idx), sp.remainder, Len(s1.groups))
    ELSE LET pp == PoolPut(s.name_pool, test)
             s1 == [s EXCEPT !.name_pool = pp.pool]
             found == FirstChildNamed(s1, group_idx, pp.idx, 1)
         IN  IF found.tag = "Test"
             THEN [suite |-> s1, ok |-> TRUE, id |-> found.idx]
             ELSE [suite |-> PushTest(s1, group_idx, pp.idx), ok |-> TRUE, id |-> Len(s1.tests)]

\* Suite::put from the head of its loop, `test` being the rest of the path
\* and group_idx the group that was reached: the suite after the call and
\* its result, Ok(TestRef { id }) or Err.
PutFrom(s, test, group_idx) ==
    LET sp == SplitOnce(test, s.separator) IN
    IF sp.ok
    THEN IF sp.name = <<>>
         THEN [suite |-> s, ok |-> FALSE, id |-> 0]
         ELSE LET pp == PoolPut(s.name_pool, sp.name)
                  s1 == [s EXCEPT !.name_pool = pp.pool]
                  found == FirstChildNamed(s1, group_idx, pp.idx, 1)
              IN  IF found.tag = "Test"
                  THEN [suite |-> s1, ok |-> FALSE, id |-> 0]
                  ELSE IF found.tag = "Group"
                  THEN PutFrom(s1, sp.remainder, found.idx)
                  ELSE PutFrom(PushGroup(s1, group_idx, pp.idx), sp.remainder, Len(s1.groups))
    ELSE LET pp == PoolPut(s.name_pool, test)
             s1 == [s EXCEPT !.name_pool = pp.pool]
             found == FirstChildNamed(s1, group_idx, pp.idx, 1)
         IN  IF found.tag = "Test"
             THEN [suite |-> s1, ok |-> TRUE, id |-> found.idx]
             ELSE IF found.tag = "Group"
             THEN [suite |-> s1, ok |-> FALSE, id |-> 0]
             ELSE [suite |-> PushTest(s1, group_idx, pp.idx), ok |-> TRUE, id |-> Len(s1.tests)]

\* Suite::put.
SuitePut(s, test) == PutFrom(s, test, 0)

RECURSIVE Ancestors(_, _)
\* The iterator of iter_ancestors from `group` on (lines 189-197).
Ancestors(s, group) ==
    IF group.tag = "Group"
    THEN <<group.idx>> \o Ancestors(s, Unpack(s.groups[group.idx + 1].parent))
    ELSE <<>>

\* Suite::iter_ancestors.
IterAncestors(s, any) ==
    Ancestors(s, CASE any.tag = "Test" -> Unpack(s.tests[any.idx + 1].parent)
                   [] any.tag = "Group" -> Unpack(s.groups[any.idx + 1].parent)
                   [] OTHER -> AnyNone)

\* Suite::iter_name_indices: the own name, then those of the ancestors, the
\* empty Idx left out.
IterNameIndices(s, any) ==
    LET own == IF any.tag = "None" THEN <<>> ELSE <<ChildName(s, any)>>
        anc == IterAncestors(s, any)
        all == own \o [k \in 1..Len(anc) |-> s.groups[anc[k] + 1].name]
    IN  SelectSeq(all, LAMBDA idx : idx # DefaultIdx)

\* Suite::iter_name_refs.
IterNameRefs(s, any) ==
    LET idxs == IterNameIndices(s, any) IN
    [k \in 1..Len(idxs) |-> RefByIdx(s.name_pool, idxs[k])]

\* utils::intersperse.
Intersperse(items, item) ==
    [k \in 1..(IF Len(items) = 0 THEN 0 ELSE 2 * Len(items) - 1) |->
        IF k % 2 = 1 THEN items[(k + 1) \div 2] ELSE item]

RECURSIVE FillFromEnd(_, _, _)
\* The loop of lines 234-238: every string is copied in front of what the
\* buffer holds already.
FillFromEnd(strings, k, bytes) ==
    IF k > Len(strings) THEN bytes
    ELSE FillFromEnd(strings, k + 1, strings[k] \o bytes)

\* Suite::get_name.
GetName(s, id) ==
    LET refs == IterNameRefs(s, AnyTest(id))
        names == [k \in 1..Len(refs) |-> PoolGet(s.name_pool, refs[k])]
    IN  FillFromEnd(Intersperse(names, s.separator), 1, <<>>)

\* Path q is path p, the separator, and more.
ExtendsPath(q, p) ==
    /\ Len(q) >= Len(p) + Len(suite.separator)
    /\ SubSeq(q, 1, Len(p) + Len(suite.separator)) = p \o suite.separator

\* The path has an empty segment.
HasEmptySegment(p) ==
    \/ p = <<>>
    \/ p[1] = "."
    \/ p[Len(p)] = "."
    \/ \E k \in 1..(Len(p) - 1) : p[k] = "." /\ p[k + 1] = "."

\* A call of Suite::put with the path `test`.
Put(test) ==
    /\ nputs < MaxPuts
    /\ LET r == SuitePut(suite, test) IN
       /\ suite' = r.suite
       /\ returned' = IF r.ok THEN returned \cup {<<test, r.id>>} ELSE returned
       /\ last_put' = [ok |-> r.ok,
                       known |-> \E x \in returned : x[1] = test,
                       uses_test |-> /\ ~HasEmptySegment(test)
                                     /\ \E x \in returned : ExtendsPath(test, x[1])]
    /\ nputs' = nputs + 1
    /\ UNCHANGED <<buildVars, runnerVars, poolVars, sutVars, samplerVars>>

----------------------------------------------------------------------------
\* The string pool with its hash table (src/src/pti/string_pool.rs).
\*
\* The map of the code starts with 1024 slots and grows when 640 strings are
\* in the pool.  The model starts it with the smallest size for which
\* map.len() / 8 is not zero, so that the growth is reached with a few
\* strings; the probe sequence and the growth are computed from the size as
\* the code computes them.  DefaultHasher is a function of the string whose
\* values the model does not compute: the hash of a string is chosen when
\* the string is hashed for the first time and is the same from then on.
\* The values are chosen so that two strings can have the same hash, the
\* same first slot with different hashes before and after the growth, or
\* different first slots of which one is on the probe sequence of the
\* other.  The lengths of the model are far below u32::MAX, so
\* the errors of lines 125-127 and 150-153 are not reached.

\* The size of the map of Pool::new (line 102), scaled down from 1024.
InitialMapSize == 8

\* The strings that are put.
PoolStrings == {<<>>, <<"a">>, <<"b">>, <<"a", "a">>, <<"a", "b">>, <<"b", "a">>}

\* The values of the hash function.
HashValues == {0, 1, 88}
NoHash == -1

\* The result of a probe that finds no slot.
NoSlot == -1

\* Ref::is_empty.
RefIsEmpty(r) == r.end <= r.begin

\* Pool::make_map: slot i of the map is element i + 1.
MakeMap(size) == [k \in 1..size |-> [r |-> DefaultRef, hash |-> 0, idx |-> DefaultIdx]]

\* Pool::new.
NewHashPool == [pool |-> <<>>, map |-> MakeMap(InitialMapSize), strings |-> <<DefaultRef>>]

\* ProbeIter::next, from the state (idx, i) to the end of the iterator.
RECURSIVE ProbeIter(_, _, _)
ProbeIter(map_size, idx, i) ==
    IF i >= map_size \div 2 THEN <<>>
    ELSE <<idx>> \o ProbeIter(map_size, (idx + i + 1) % map_size, i + 1)

\* Pool::probe: the slots in the order they are probed.
Probe(map, hash) == ProbeIter(Len(map), hash % Len(map), 0)

\* The find of probe_first_empty, from the k-th probed slot on.
RECURSIVE FindEmpty(_, _, _)
FindEmpty(map, probes, k) ==
    IF k > Len(probes) THEN NoSlot
    ELSE IF RefIsEmpty(map[probes[k] + 1].r) THEN probes[k]
    ELSE FindEmpty(map, probes, k + 1)

\* Pool::probe_first_empty; NoSlot is the panic of its unwrap.
ProbeFirstEmpty(map, hash) == FindEmpty(map, Probe(map, hash), 1)

\* The loop of lines 137-148, from the k-th probed slot on: it returns the
\* entry of an equal string, or breaks at an empty slot, or ends.
RECURSIVE ProbeLoop(_, _, _, _, _)
ProbeLoop(p, string, hash, probes, k) ==
    IF k > Len(probes) THEN [tag |-> "none"]
    ELSE LET e == p.map[probes[k] + 1] IN
         IF RefIsEmpty(e.r) THEN [tag |-> "empty", found_idx |-> probes[k]]
         ELSE IF e.hash = hash /\ PoolGet(p, e.r) = string
         THEN [tag |-> "equal", r |-> e.r, idx |-> e.idx]
         ELSE ProbeLoop(p, string, hash, probes, k + 1)

\* The loop of lines 159-166, from slot k - 1 of the old map on.
RECURSIVE Reinsert(_, _, _)
Reinsert(old, new, k) ==
    IF k > Len(old) THEN [map |-> new, panic |-> FALSE]
    ELSE IF RefIsEmpty(old[k].r) THEN Reinsert(old, new, k + 1)
    ELSE LET idx == ProbeFirstEmpty(new, old[k].hash) IN
         IF idx = NoSlot THEN [map |-> new, panic |-> TRUE]
         ELSE Reinsert(old, [new EXCEPT ![idx + 1] = old[k]], k + 1)

\* A growth that drops the entries of the old map.
Grow_Drop(map) == [map |-> MakeMap((Len(map) \div 8) * 11), panic |-> FALSE]

\* Lines 157-166: the grown map with the entries of the old one.
Grow(map) == Reinsert(map, MakeMap((Len(map) \div 8) * 11), 1)

\* Pool::put with the hash of the string: the pool after it, the (Ref, Idx)
\* it returns, and whether it panics.
PoolPutHash(p, string, hash) ==
    IF string = <<>>
    THEN [pool |-> p, r |-> DefaultRef, idx |-> DefaultIdx, panic |-> FALSE]
    ELSE
    LET found == ProbeLoop(p, string, hash, Probe(p.map, hash), 1) IN
    IF found.tag = "equal"
    THEN [pool |-> p, r |-> found.r, idx |-> found.idx, panic |-> FALSE]
    ELSE
    LET grow == found.tag = "none" \/ Len(p.strings) >= (Len(p.map) \div 8) * 5
        grown == IF grow THEN Grow(p.map) ELSE [map |-> p.map, panic |-> FALSE]
        map_idx == IF grown.panic THEN NoSlot
                   ELSE IF grow THEN ProbeFirstEmpty(grown.map, hash)
                   ELSE found.found_idx
        r == [begin |-> Len(p.pool), end |-> Len(p.pool) + Len(string)]
        idx == Len(p.strings)
    IN  IF map_idx = NoSlot
        THEN [pool |-> [p EXCEPT !.map = grown.map], r |-> DefaultRef, idx |-> DefaultIdx,
              panic |-> TRUE]
        ELSE [pool |-> [pool |-> p.pool \o string,
                        map |-> [grown.map EXCEPT ![map_idx + 1] =
                                    [r |-> r, hash |-> hash, idx |-> idx]],
                        strings |-> Append(p.strings, r)],
              r |-> r, idx |-> idx, panic |-> FALSE]

\* A call of Pool::put with `string`.
PoolPutCall(string) ==
    /\ ~pool_panicked
    /\ \E hash \in HashValues :
         /\ string # <<>> => hashes[string] \in {NoHash, hash}
         /\ string = <<>> => hash = 0
         /\ LET res == PoolPutHash(string_pool, string, hash) IN
            /\ string_pool' = res.pool
            /\ pool_panicked' = res.panic
            /\ pool_returned' = IF res.panic THEN pool_returned
                                ELSE pool_returned \cup {<<string, res.r, res.idx>>}
         /\ hashes' = IF string = <<>> THEN hashes ELSE [hashes EXCEPT ![string] = hash]
    /\ pool_reput' = \E x \in pool_returned : x[1] = string
    /\ UNCHANGED fill
    /\ UNCHANGED <<buildVars, runnerVars, suiteVars, sutVars, samplerVars>>

\* The filling of a pool with new strings whose hashes have the same first
\* slot.  The map starts with a multiple of 8 slots from which the growth of
\* line 159 goes to a larger size that is no power of two (24 to 33), as it
\* does from 1024 (1408, 1936, 2662, 3652).
FillMapSize == 24

\* The number of strings that are put into the filled pool.
MaxFill == 12

\* The hashes of a filled pool: their first slot is 0 in the map of 24 and
\* in the map of 33 slots.
FillHashes == {0, 792}

FillChars == <<"a", "b", "c", "d", "e", "f">>

\* The k-th string of the filling, k from 0: all are different and none is
\* empty.
FillString(k) == <<FillChars[(k \div 6) + 1], FillChars[(k % 6) + 1]>>

\* Pool::new with the map of FillMapSize slots.
NewFillPool == [NewHashPool EXCEPT !.map = MakeMap(FillMapSize)]

NoFill == [pool |-> NewFillPool, hash |-> NoHash, count |-> 0, grown |-> 0, panicked |-> FALSE]

\* A call of Pool::put with the next string of the filling.
FillPut ==
    /\ ~fill.panicked
    /\ fill.count < MaxFill
    /\ fill.count < Len(FillChars) * Len(FillChars)
    /\ \E hash \in FillHashes :
         /\ LET res == PoolPutHash(fill.pool, FillString(fill.count), hash) IN
            fill' = [pool |-> res.pool, hash |-> hash, count |-> fill.count + 1,
                     grown |-> IF Len(res.pool.map) # Len(fill.pool.map)
                               THEN fill.grown + 1 ELSE fill.grown,
                     panicked |-> res.panic]
    /\ UNCHANGED <<string_pool, hashes, pool_returned, pool_reput, pool_panicked>>
    /\ UNCHANGED <<buildVars, runnerVars, suiteVars, sutVars, samplerVars>>

----------------------------------------------------------------------------
\* Revisions and their JSON (src/src/pti/sut.rs).
\*
\* A text is the sequence of its characters.  A ModuleRevision::Git is the
\* sequence of its 20 bytes.  Of serde_json, the compact form that to_string
\* writes is modelled, for strings that need no escape: from_str reads the
\* key "top", then the end of the object or the key "submodule-overrides"
\* with an array of [name, revision] pairs.

\* The bytes of a git hash (line 12).
HashLen == 20

LowerHex == <<"0", "1", "2", "3", "4", "5", "6", "7", "8", "9", "a", "b", "c", "d", "e", "f">>
UpperHex == <<"0", "1", "2", "3", "4", "5", "6", "7", "8", "9", "A", "B", "C", "D", "E", "F">>

\* char::to_digit(16), or -1.
ToDigit(c) ==
    IF \E v \in 1..16 : LowerHex[v] = c THEN (CHOOSE v \in 1..16 : LowerHex[v] = c) - 1
    ELSE IF \E v \in 1..16 : UpperHex[v] = c THEN (CHOOSE v \in 1..16 : UpperHex[v] = c) - 1
    ELSE -1

\* The value of a sequence of hexadecimal digits.
RECURSIVE DigitsValue(_)
DigitsValue(digits) ==
    IF digits = <<>> THEN 0
    ELSE 16 * DigitsValue(SubSeq(digits, 1, Len(digits) - 1)) + ToDigit(digits[Len(digits)])

\* u8::from_str_radix(src, 16): a sign "+" is accepted in front of the
\* digits, and the value has to fit a u8.
FromStrRadix(src) ==
    LET digits == IF src # <<>> /\ src[1] = "+" THEN Tail(src) ELSE src IN
    IF /\ digits # <<>>
       /\ \A k \in 1..Len(digits) : ToDigit(digits[k]) >= 0
       /\ DigitsValue(digits) < 256
    THEN [ok |-> TRUE, value |-> DigitsValue(digits)]
    ELSE [ok |-> FALSE, value |-> 0]

NoHashBytes == [i \in 1..HashLen |-> 0]

\* ModuleRevision::from_git_ascii.
FromGitAscii(hex) ==
    IF Len(hex) # 2 * HashLen THEN [ok |-> FALSE, hash |-> NoHashBytes]
    ELSE LET byte(i) == FromStrRadix(SubSeq(hex, 2 * i - 1, 2 * i)) IN
         IF \A i \in 1..HashLen : byte(i).ok
         THEN [ok |-> TRUE, hash |-> [i \in 1..HashLen |-> byte(i).value]]
         ELSE [ok |-> FALSE, hash |-> NoHashBytes]

\* The format {b:x}, without the padding.
FormatByte_NoPad(b) ==
    IF b < 16 THEN <<LowerHex[b + 1]>> ELSE <<LowerHex[(b \div 16) + 1], LowerHex[(b % 16) + 1]>>

\* The format {b:02x} of a byte.
FormatByte(b) == <<LowerHex[(b \div 16) + 1], LowerHex[(b % 16) + 1]>>

\* The concatenation of a sequence of texts.
RECURSIVE Concat(_)
Concat(texts) == IF texts = <<>> THEN <<>> ELSE Head(texts) \o Concat(Tail(texts))

\* ModuleRevision::to_git_string.
ToGitString(hash) == Concat([i \in 1..Len(hash) |-> FormatByte(hash[i])])

GitPrefix == <<"g", "i", "t", "-">>

\* Serialize for ModuleRevision, human readable: the string.
SerializeModuleRevision(hash) == GitPrefix \o ToGitString(hash)

\* Deserialize for ModuleRevision, human readable, from the string.
DeserializeModuleRevision(str) ==
    IF Len(str) >= Len(GitPrefix) /\ SubSeq(str, 1, Len(GitPrefix)) = GitPrefix
    THEN FromGitAscii(SubSeq(str, Len(GitPrefix) + 1, Len(str)))
    ELSE [ok |-> FALSE, hash |-> NoHashBytes]

Quote == "\""
TopKey == <<"\"", "t", "o", "p", "\"", ":">>
OverridesKey == <<"\"", "s", "u", "b", "m", "o", "d", "u", "l", "e", "-", "o", "v", "e", "r", "r", "i", "d", "e", "s", "\"", ":">>

\* A Revision.
MakeRevision(top, submodule_overrides) ==
    [top |-> top, submodule_overrides |-> submodule_overrides]

NoRevision == MakeRevision(NoHashBytes, <<>>)

\* A JSON string.
JsonString(str) == <<Quote>> \o str \o <<Quote>>

\* The texts with `sep` between them.
RECURSIVE Join(_, _)
Join(texts, sep) ==
    IF texts = <<>> THEN <<>>
    ELSE IF Len(texts) = 1 THEN texts[1]
    ELSE texts[1] \o sep \o Join(Tail(texts), sep)

\* The pair (String, ModuleRevision) as a JSON array.
SerializeOverride(o) ==
    <<"[">> \o JsonString(o[1]) \o <<",">> \o JsonString(SerializeModuleRevision(o[2])) \o <<"]">>

\* serde_json::to_string of a Revision: the field submodule-overrides is
\* skipped when it is empty.
RevisionToString(rev) ==
    <<"{">> \o TopKey \o JsonString(SerializeModuleRevision(rev.top))
    \o (IF rev.submodule_overrides = <<>> THEN <<>>
        ELSE <<",">> \o OverridesKey \o <<"[">>
             \o Join([k \in 1..Len(rev.submodule_overrides) |->
                         SerializeOverride(rev.submodule_overrides[k])], <<",">>)
             \o <<"]">>)
    \o <<"}">>

\* The text has `lit` at position pos.
HasAt(text, pos, lit) ==
    /\ pos + Len(lit) - 1 <= Len(text)
    /\ SubSeq(text, pos, pos + Len(lit) - 1) = lit

\* A JSON string at pos: its value and the position after it.
ParseString(text, pos) ==
    IF /\ HasAt(text, pos, <<Quote>>)
       /\ \E j \in (pos + 1)..Len(text) : text[j] = Quote
    THEN LET j == CHOOSE j \in (pos + 1)..Len(text) :
                      /\ text[j] = Quote
                      /\ \A i \in (pos + 1)..(j - 1) : text[i] # Quote
         IN  [ok |-> TRUE, value |-> SubSeq(text, pos + 1, j - 1), next |-> j + 1]
    ELSE [ok |-> FALSE, value |-> <<>>, next |-> pos]

\* A ModuleRevision at pos.
ParseModuleRevision(text, pos) ==
    LET str == ParseString(text, pos)
        m == DeserializeModuleRevision(str.value)
    IN  [ok |-> str.ok /\ m.ok, hash |-> m.hash, next |-> str.next]

\* A pair [name, revision] at pos.
ParseOverride(text, pos) ==
    LET name == ParseString(text, pos + 1)
        m == ParseModuleRevision(text, name.next + 1)
    IN  [ok |-> /\ HasAt(text, pos, <<"[">>) /\ name.ok /\ HasAt(text, name.next, <<",">>)
                /\ m.ok /\ HasAt(text, m.next, <<"]">>),
         value |-> <<name.value, m.hash>>, next |-> m.next + 1]

\* The elements of an array of pairs, from pos, to the closing bracket.
RECURSIVE ParseOverrides(_, _, _)
ParseOverrides(text, pos, acc) ==
    IF HasAt(text, pos, <<"]">>) /\ acc = <<>>
    THEN [ok |-> TRUE, value |-> acc, next |-> pos + 1]
    ELSE LET o == ParseOverride(text, pos) IN
         IF ~o.ok THEN [ok |-> FALSE, value |-> <<>>, next |-> pos]
         ELSE IF HasAt(text, o.next, <<",">>)
         THEN ParseOverrides(text, o.next + 1, Append(acc, o.value))
         ELSE IF HasAt(text, o.next, <<"]">>)
         THEN [ok |-> TRUE, value |-> Append(acc, o.value), next |-> o.next + 1]
         ELSE [ok |-> FALSE, value |-> <<>>, next |-> pos]

NoResult == [tag |-> "none", rev |-> NoRevision]
ErrResult == [tag |-> "err", rev |-> NoRevision]
OkResult(rev) == [tag |-> "ok", rev |-> rev]

\* serde_json::from_str::<Revision>: submodule-overrides is the default, the
\* empty Vec, when the key is absent.
FromStr(text) ==
    LET top == ParseModuleRevision(text, 2 + Len(TopKey)) IN
    IF ~(HasAt(text, 1, <<"{">>) /\ HasAt(text, 2, TopKey) /\ top.ok) THEN ErrResult
    ELSE IF HasAt(text, top.next, <<"}">>) /\ top.next = Len(text)
    THEN OkResult(MakeRevision(top.hash, <<>>))
    ELSE IF HasAt(text, top.next, <<",">> \o OverridesKey \o <<"[">>)
    THEN LET os == ParseOverrides(text, top.next + Len(OverridesKey) + 2, <<>>) IN
         IF os.ok /\ HasAt(text, os.next, <<"}">>) /\ os.next = Len(text)
         THEN OkResult(MakeRevision(top.hash, os.value))
         ELSE ErrResult
    ELSE ErrResult

\* The texts that are read: a hexadecimal string of 40 characters that are
\* all the same but one, a shorter and a longer one, the sample of the unit
\* test, and a string without the prefix "git-".
SampleChars == {LowerHex[v] : v \in 1..16} \cup {"A", "F", "+", "-", "g"}
SampleOfTest == <<"6", "3", "0", "9", "e", "9", "c", "7", "e", "e", "d", "d", "c", "7", "3", "1", "8", "1", "5", "e", "e", "a", "5", "f", "e", "e", "6", "9", "6", "a", "c", "4", "f", "b", "0", "9", "8", "e", "0", "9">>
HexSamples ==
    {[i \in 1..(2 * HashLen) |-> IF i = k THEN d ELSE e] :
        k \in 1..(2 * HashLen), d \in SampleChars, e \in {"0", "9", "f"}}
    \cup {SampleOfTest, Tail(SampleOfTest), SampleOfTest \o <<"0">>}
SampleTexts ==
    {<<"{">> \o TopKey \o JsonString(GitPrefix \o hex) \o <<"}">> : hex \in HexSamples}
    \cup {<<"{">> \o TopKey \o JsonString(SampleOfTest) \o <<"}">>}

\* The Revision values that are written.
SampleHashes ==
    {[i \in 1..HashLen |-> IF i = k THEN b ELSE c] :
        k \in {1, HashLen}, b \in {0, 9, 10, 15, 16, 99, 255}, c \in {0, 171}}
SampleNames == {<<"m">>, <<"a", "/", "b">>}
SampleOverrides ==
    {<<>>} \cup {<<<<n, h>>>> : n \in SampleNames, h \in SampleHashes}
    \cup {<<<<n, h>>, <<n, g>>>> : n \in SampleNames, h \in {NoHashBytes},
                                   g \in {[i \in 1..HashLen |-> 255]}}
SampleRevisions ==
    {MakeRevision(top, os) : top \in {[i \in 1..HashLen |-> 99], NoHashBytes},
                             os \in SampleOverrides}
    \cup {MakeRevision(top, <<>>) : top \in SampleHashes}

NoText == <<>>

\* serde_json::from_str on a text.
ReadRevision(text) ==
    /\ sut_rev = NoResult
    /\ sut_in' = text
    /\ sut_rev' = FromStr(text)
    /\ UNCHANGED <<sut_out, sut_back>>
    /\ UNCHANGED <<buildVars, runnerVars, suiteVars, poolVars, samplerVars>>

\* A Revision value.
NewRevision(rev) ==
    /\ sut_rev = NoResult
    /\ sut_rev' = OkResult(rev)
    /\ UNCHANGED <<sut_in, sut_out, sut_back>>
    /\ UNCHANGED <<buildVars, runnerVars, suiteVars, poolVars, samplerVars>>

\* serde_json::to_string on the Revision at hand.
WriteRevision ==
    /\ sut_rev.tag = "ok"
    /\ sut_out = NoText
    /\ sut_out' = RevisionToString(sut_rev.rev)
    /\ UNCHANGED <<sut_in, sut_rev, sut_back>>
    /\ UNCHANGED <<buildVars, runnerVars, suiteVars, poolVars, samplerVars>>

\* serde_json::from_str on the text that to_string wrote.
ReadBack ==
    /\ sut_out # NoText
    /\ sut_back = NoResult
    /\ sut_back' = FromStr(sut_out)
    /\ UNCHANGED <<sut_in, sut_rev, sut_out>>
    /\ UNCHANGED <<buildVars, runnerVars, suiteVars, poolVars, samplerVars>>

----------------------------------------------------------------------------
\* The sampler (src/src/pti/suite.rs, lines 245-392).
\*
\* A Sampler is made of the suite by Sampler::new after the puts, and is
\* then sampled.  The weight of a test is (min(1, sum of 1 / frequency of
\* its names) * 2^32) as u64; the model computes it with WeightUnit in the
\* place of 2^32 and with the sum as an exact fraction.  The random number
\* of sample_core is an input.  The products of less_than stay below 2^53
\* in the model, where the f64 arithmetic of the code is exact.

\* Bound: the sample calls on a sampler.
MaxSamples == 3

\* The paths of the suites that are sampled: the shape of the unit test.
SamplerPaths == {<<"a", ".", "a">>, <<"a", ".", "b">>, <<"b", ".", "a">>, <<"a">>, <<>>}

\* The unit of the test weights, 1 << 32 in the code (line 300).
WeightUnit == 16

\* Pool::string_count.
StringCount(p) == Len(p.strings) - 1

\* The number of times x is in the sequence.
CountIn(seq, x) == Cardinality({k \in 1..Len(seq) : seq[k] = x})

\* The sum of f[1] .. f[n].
RECURSIVE SumTo(_, _)
SumTo(f, n) == IF n = 0 THEN 0 ELSE f[n] + SumTo(f, n - 1)

\* The names of the test with id t (the entry t + 1 of tests).
NamesOfTest(s, t) == IterNameIndices(s, AnyTest(t))

\* Lines 285-290: name_frequency; the entry of Idx n is at n.index() = n - 1,
\* the element n of the sequence.
NameFrequency(s) ==
    [n \in 1..StringCount(s.name_pool) |->
        SumTo([t \in 1..Len(s.tests) |-> CountIn(NamesOfTest(s, t - 1), n)], Len(s.tests))]

\* The sum of 1 / freq[names[k]] for k up to n, as a fraction.
RECURSIVE SumInverse(_, _, _)
SumInverse(freq, names, n) ==
    IF n = 0 THEN [num |-> 0, den |-> 1]
    ELSE LET rest == SumInverse(freq, names, n - 1)
             f == freq[names[n]]
         IN  [num |-> rest.num * f + rest.den, den |-> rest.den * f]

\* Lines 292-301: the weight of a test.
TestWeight(s, freq, t) ==
    LET names == NamesOfTest(s, t)
        weight == SumInverse(freq, names, Len(names))
    IN  IF weight.num > weight.den THEN WeightUnit
        ELSE (weight.num * WeightUnit) \div weight.den

WeightAndCount(weight, sampled_count) ==
    [weight |-> weight, sampled_count |-> sampled_count, inf |-> FALSE]

\* WeightAndCount::inf: weight 0 and the count u64::MAX.
WeightAndCountInf == [weight |-> 0, sampled_count |-> 0, inf |-> TRUE]

\* A less_than with the sides of the comparison exchanged.
LessThan_Swapped(self, rhs) ==
    IF rhs.inf THEN self.weight > 0
    ELSE rhs.sampled_count * self.weight < self.sampled_count * rhs.weight

\* WeightAndCount::less_than.  For rhs = inf() it is
\* sampled_count * 0 < u64::MAX * weight.
LessThan(self, rhs) ==
    IF rhs.inf THEN self.weight > 0
    ELSE self.sampled_count * rhs.weight < rhs.sampled_count * self.weight

\* Sampler::new_with_test_weights.  The sum of the weights is far below
\* 2^64, so the error of checked_add is not reached.
NewWithTestWeights(s, test_weights) ==
    [tag |-> "ok",
     test_weights_cumulative |-> [t \in 1..Len(test_weights) |-> SumTo(test_weights, t)],
     test_counts |-> [t \in 1..Len(s.tests) |-> 0],
     names |-> [n \in 1..StringCount(s.name_pool) |->
                  WeightAndCount(
                      SumTo([t \in 1..Len(s.tests) |->
                                CountIn(NamesOfTest(s, t - 1), n) * test_weights[t]],
                            Len(s.tests)),
                      0)]]

\* Sampler::new.
NewSampler(s) ==
    NewWithTestWeights(s, [t \in 1..Len(s.tests) |-> TestWeight(s, NameFrequency(s), t - 1)])

NoSampler ==
    [tag |-> "none", test_weights_cumulative |-> <<>>, test_counts |-> <<>>, names |-> <<>>]

\* The sum of the weights, 0 for no test.
TotalWeight(samp) ==
    IF samp.test_weights_cumulative = <<>> THEN 0
    ELSE samp.test_weights_cumulative[Len(samp.test_weights_cumulative)]

\* Sampler::sample_core with the random number r: partition_point of
\* |w| w <= r on the cumulative weights.
SampleCore(samp, r) ==
    Cardinality({t \in 1..Len(samp.test_weights_cumulative) :
                    samp.test_weights_cumulative[t] <= r})

\* The loop of lines 369-374 from the k-th name on.
RECURSIVE LeastFrequent(_, _, _, _)
LeastFrequent(samp, names, k, least_frequent) ==
    IF k > Len(names) THEN least_frequent
    ELSE LeastFrequent(samp, names, k + 1,
                       IF LessThan(samp.names[names[k]], least_frequent)
                       THEN samp.names[names[k]] ELSE least_frequent)

\* Lines 359-382: the choice between the two draws.
Choose(samp, s, sample1, sample2) ==
    LET sample1_count == samp.test_counts[sample1 + 1]
        sample2_count == samp.test_counts[sample2 + 1]
    IN  IF sample1_count < sample2_count THEN sample1
        ELSE IF sample2_count < sample1_count THEN sample2
        ELSE LET names1 == NamesOfTest(s, sample1)
                 names2 == NamesOfTest(s, sample2)
                 least_frequent == LeastFrequent(samp, names1, 1, WeightAndCountInf)
                 take2 == \E k \in 1..Len(names2) :
                              LessThan(samp.names[names2[k]], least_frequent)
             IN  IF take2 THEN sample2 ELSE sample1

\* The counts if only the test were counted (line 384 without 386-388).
Count_TestOnly(samp, s, sample) ==
    [samp EXCEPT !.test_counts[sample + 1] = @ + 1]

\* Lines 384-388: the counts after `sample` was chosen.
Count(samp, s, sample) ==
    [samp EXCEPT !.test_counts[sample + 1] = @ + 1,
                 !.names = [n \in 1..Len(samp.names) |->
                               [samp.names[n] EXCEPT !.sampled_count =
                                   @ + CountIn(NamesOfTest(s, sample), n)]]]

NoSample == [sample1 |-> -1, sample2 |-> -1, sample |-> -1]

\* A call of Sampler::new on the suite.
SamplerNew ==
    /\ sampler.tag = "none"
    /\ sampler' = NewSampler(suite)
    /\ UNCHANGED <<last_sample, nsamples>>
    /\ UNCHANGED <<buildVars, runnerVars, suiteVars, poolVars, sutVars>>

\* A call of Sampler::sample where sample_core draws r1 and r2.  Without a
\* test the unwrap of line 338 panics, and with the total weight 0
\* Uniform::new(0, 0) panics.
SamplerSample ==
    /\ sampler.tag = "ok"
    /\ nsamples < MaxSamples
    /\ IF TotalWeight(sampler) = 0
       THEN /\ sampler' = [sampler EXCEPT !.tag = "panicked"]
            /\ last_sample' = NoSample
       ELSE \E r1, r2 \in 0..(TotalWeight(sampler) - 1) :
              LET sample1 == SampleCore(sampler, r1)
                  sample2 == SampleCore(sampler, r2)
                  sample == Choose(sampler, suite, sample1, sample2)
              IN  /\ sampler' = Count(sampler, suite, sample)
                  /\ last_sample' = [sample1 |-> sample1, sample2 |-> sample2,
                                      sample |-> sample]
    /\ nsamples' = nsamples + 1
    /\ UNCHANGED <<buildVars, runnerVars, suiteVars, poolVars, sutVars>>

----------------------------------------------------------------------------
\* The life of the process.

NoTaskState ==
    /\ pc' = [t \in Tasks |-> "idle"]
    /\ task_rev' = [t \in Tasks |-> NoRev]
    /\ task_id' = [t \in Tasks |-> 0]
    /\ ret' = [t \in Tasks |-> Unset]
    /\ building' = FALSE
    /\ building_permit' = FALSE
    /\ building_waiters' = <<>>
    /\ attempts' = [i \in Ids |-> 0]
    /\ chosen_run' = {}
    /\ write_failed' = FALSE

\* BuildMgr::new (lines 139-189) on the directory as it is.
New ==
    /\ phase # "running"
    /\ LET r == ReadBuildLog(disk)
           o == OpenBuildLog(disk, r.truncate)
       IN  /\ phase' = IF o.ok THEN "running" ELSE "failed"
           /\ state' = IF o.ok THEN r.state ELSE DefaultState
           /\ disk' = o.disk
    /\ NoTaskState
    /\ UNCHANGED chosen
    /\ UNCHANGED <<runnerVars, suiteVars, poolVars, sutVars, samplerVars>>

\* The process exits or is killed: the manager and every future are dropped.
Exit ==
    /\ phase = "running"
    /\ phase' = "down"
    /\ state' = DefaultState
    /\ NoTaskState
    /\ UNCHANGED <<disk, chosen>>
    /\ UNCHANGED <<runnerVars, suiteVars, poolVars, sutVars, samplerVars>>

\* A line of the log is damaged while no manager runs.
CorruptLine(k) ==
    /\ phase = "down"
    /\ k \in 1..Len(disk)
    /\ disk[k] # Garbage
    /\ disk' = [disk EXCEPT ![k] = Garbage]
    /\ UNCHANGED <<phase, state, building, building_permit, building_waiters, pc,
                   task_rev, task_id, ret, chosen, chosen_run, attempts, write_failed>>
    /\ UNCHANGED <<runnerVars, suiteVars, poolVars, sutVars, samplerVars>>

Init ==
    /\ phase = "down"
    /\ disk = <<>>
    /\ state = DefaultState
    /\ building = FALSE
    /\ building_permit = FALSE
    /\ building_waiters = <<>>
    /\ pc = [t \in Tasks |-> "idle"]
    /\ task_rev = [t \in Tasks |-> NoRev]
    /\ task_id = [t \in Tasks |-> 0]
    /\ ret = [t \in Tasks |-> Unset]
    /\ chosen = {}
    /\ chosen_run = {}
    /\ attempts = [i \in Ids |-> 0]
    /\ write_failed = FALSE
    /\ rstate = NoRState
    /\ stream = "none"
    /\ events = <<>>
    /\ proc = "none"
    /\ kill_task = "none"
    /\ nlines = 0
    /\ nerrlines = 0
    /\ starts = <<>>
    /\ occurred = <<>>
    /\ done_seen = FALSE
    /\ open_at_exit = FALSE
    /\ exit_state = NoRState
    /\ suite = NewSuite(<<".">>)
    /\ returned = {}
    /\ nputs = 0
    /\ last_put = [ok |-> FALSE, known |-> FALSE, uses_test |-> FALSE]
    /\ string_pool = NewHashPool
    /\ hashes = [string \in PoolStrings |-> NoHash]
    /\ pool_returned = {}
    /\ pool_reput = FALSE
    /\ pool_panicked = FALSE
    /\ fill = NoFill
    /\ sut_in = NoText
    /\ sut_rev = NoResult
    /\ sut_out = NoText
    /\ sut_back = NoResult
    /\ sampler = NoSampler
    /\ last_sample = NoSample
    /\ nsamples = 0

Next ==
    \/ New
    \/ Exit
    \/ \E k \in 1..MaxLog : CorruptLine(k)
    \/ \E t \in Tasks, rev \in Revs, write_ok \in BOOLEAN : Call(t, rev, write_ok)
    \/ \E t \in Tasks : ResumeBuilding(t)
    \/ \E t \in Tasks, success \in BOOLEAN, write_ok \in BOOLEAN : BuildInnerReturn(t, success, write_ok)
    \/ \E t \in Tasks : ResumeStatus(t)
    \/ \E id \in Ids, write_ok \in BOOLEAN : ClearFail(id, write_ok)

Spec == Init /\ [][Next]_vars

\* One run of the manager in which no future is dropped: the process does
\* not exit.
NextBuildRun ==
    \/ New
    \/ \E t \in Tasks, rev \in Revs, write_ok \in BOOLEAN : Call(t, rev, write_ok)
    \/ \E t \in Tasks : ResumeBuilding(t)
    \/ \E t \in Tasks, success \in BOOLEAN, write_ok \in BOOLEAN : BuildInnerReturn(t, success, write_ok)
    \/ \E t \in Tasks : ResumeStatus(t)
    \/ \E id \in Ids, write_ok \in BOOLEAN : ClearFail(id, write_ok)

\* The runtime polls a future that was woken, and every build_inner
\* returns; the callers and clear_fail owe nothing.
SpecBuildFair ==
    /\ Init /\ [][NextBuildRun]_vars
    /\ \A t \in Tasks :
          /\ WF_vars(ResumeBuilding(t))
          /\ WF_vars(ResumeStatus(t))
          /\ WF_vars(\E success \in BOOLEAN, write_ok \in BOOLEAN :
                        BuildInnerReturn(t, success, write_ok))

\* One run of the manager in which the futures of calls can be dropped.
NextBuildCancel ==
    \/ NextBuildRun
    \/ \E t \in Tasks : Cancel(t)

\* As SpecBuildFair: a future that is not dropped is polled when it was
\* woken, and its build_inner returns.
SpecBuildCancel ==
    /\ Init /\ [][NextBuildCancel]_vars
    /\ \A t \in Tasks :
          /\ WF_vars(ResumeBuilding(t))
          /\ WF_vars(ResumeStatus(t))
          /\ WF_vars(\E success \in BOOLEAN, write_ok \in BOOLEAN :
                        BuildInnerReturn(t, success, write_ok))

\* One run of run_deqp, from the call to the end or the drop of its stream.
NextRunner ==
    \/ \E spawn_ok \in BOOLEAN : RunDeqp(spawn_ok)
    \/ PollStart
    \/ PollNext
    \/ \E l \in {Line(text) : text \in StdoutTexts} \cup {Eof, ReadErr} : StdoutArm(l)
    \/ \E l \in {Line(text) : text \in StderrTexts} \cup {Eof, ReadErr} : StderrArm(l)
    \/ \E wait_ok \in BOOLEAN : ChildArm(wait_ok)
    \/ TimeoutArm
    \/ Tick
    \/ \E success \in BOOLEAN : ProcExit(success)
    \/ KillTask
    \/ DropStream

SpecRunner == Init /\ [][NextRunner]_vars

\* The put calls on one suite.
NextSuite == \E test \in Paths : Put(test)

SpecSuite == Init /\ [][NextSuite]_vars

\* The put calls on one pool.
NextPool == \E string \in PoolStrings : PoolPutCall(string)

SpecPool == Init /\ [][NextPool]_vars

\* The put calls that fill one pool with strings of one hash.
NextPoolFill == FillPut

SpecPoolFill == Init /\ [][NextPoolFill]_vars

\* One Revision read from JSON or given as a value, written as JSON, and
\* read back.
NextSut ==
    \/ \E text \in SampleTexts : ReadRevision(text)
    \/ \E rev \in SampleRevisions : NewRevision(rev)
    \/ WriteRevision
    \/ ReadBack

SpecSut == Init /\ [][NextSut]_vars

\* The puts on a suite, then a sampler of it and its samples.
NextSampler ==
    \/ sampler.tag = "none" /\ \E test \in SamplerPaths : Put(test)
    \/ SamplerNew
    \/ SamplerSample

SpecSampler == Init /\ [][NextSampler]_vars

\* The runtime polls a stream that is not dropped, runs a spawned task, and
\* its timer goes on; the child and the consumer owe nothing.
SpecRunnerFair ==
    /\ SpecRunner
    /\ WF_vars(PollStart)
    /\ WF_vars(PollNext)
    /\ WF_vars(TimeoutArm)
    /\ WF_vars(Tick)
    /\ WF_vars(KillTask)

----------------------------------------------------------------------------
\* Helpers of the properties.

Running == phase = "running"

Builds == state.builds_by_id

StatusOf(id) == Builds[id].status

InBuild == {t \in Tasks : pc[t] = "in_build"}

\* The lines of the log that parse to entry e.
LinesOf(e) == {k \in 1..Len(disk) : FromJson(disk[k]).ok /\ FromJson(disk[k]).entry = e}

CreateLinesOfRev(rev) ==
    {k \in 1..Len(disk) : /\ FromJson(disk[k]).ok
                          /\ FromJson(disk[k]).entry.type = "Create"
                          /\ FromJson(disk[k]).entry.rev = rev}

CreateLinesOfId(id) ==
    {k \in 1..Len(disk) : /\ FromJson(disk[k]).ok
                          /\ FromJson(disk[k]).entry.type = "Create"
                          /\ FromJson(disk[k]).entry.id = id}

CompleteLinesOfId(id) == LinesOf(CompleteEntry(id, TRUE)) \cup LinesOf(CompleteEntry(id, FALSE))

CreatedIds == {i \in 1..(MaxId + 1) : CreateLinesOfId(i) # {}}

AllEntries ==
    UNION {{CreateEntry(i, r) : r \in Revs}
           \cup {CompleteEntry(i, TRUE), CompleteEntry(i, FALSE), UseEntry(i), ClearFailEntry(i)}
           : i \in 1..(MaxId + 1)}

\* The status a replay of the log can give: Building is never logged.
Committed(status) == IF status = "Building" THEN "Pending" ELSE status

----------------------------------------------------------------------------
\* C1: at most one get_or_make_build call is inside build_inner at any time;
\* a call enters build_inner only in a step that finds the manager-wide
\* building flag false and sets it, and while the manager runs the flag is
\* cleared only by the step in which the call inside build_inner leaves it.
C1_SingleBuilder ==
    /\ [](Cardinality(InBuild) <= 1 /\ (InBuild # {} => building))
    /\ [][\A t \in Tasks : (pc[t] # "in_build" /\ pc'[t] = "in_build")
                              => (~building /\ building')]_vars
    /\ [][(building /\ ~building' /\ phase' = "running")
            => \E t \in Tasks : pc[t] = "in_build" /\ pc'[t] = "done"]_vars

\* One call builds while a call for another revision waits for the flag.
C1_Witness ==
    \E t, u \in Tasks : /\ pc[t] = "in_build"
                        /\ pc[u] = "wait_building"
                        /\ task_rev[t] # task_rev[u]

\* C2: for a revision that was unknown at the start of the run and whose
\* build succeeds (no write fails, no Complete{success=false} is logged for
\* it): the log holds exactly one Create entry for the revision and exactly
\* one Complete{success=true} entry for its id, build_inner was called
\* exactly once for it, and every call that returned for the revision
\* returned the artefact path of that id.
C2_OneBuildPerRevision ==
    (Running /\ ~write_failed) =>
        \A r \in DOMAIN state.builds_by_rev :
            LET i == state.builds_by_rev[r] IN
            (i \in chosen_run /\ StatusOf(i) = "Ok" /\ LinesOf(CompleteEntry(i, FALSE)) = {})
            => /\ Cardinality(CreateLinesOfRev(r)) = 1
               /\ Cardinality(LinesOf(CompleteEntry(i, TRUE))) = 1
               /\ attempts[i] = 1
               /\ \A t \in Tasks : (task_rev[t] = r /\ pc[t] = "done")
                                     => ret[t] = Some(GetArtefactPath(i))

\* Three concurrent calls for one new revision have all returned its path.
C2_Witness ==
    /\ Running /\ ~write_failed
    /\ \E r \in Revs : /\ \A t \in Tasks : task_rev[t] = r /\ ret[t].tag = "Some"
                       /\ r \in DOMAIN state.builds_by_rev
                       /\ state.builds_by_rev[r] \in chosen_run
                       /\ attempts[state.builds_by_rev[r]] = 1

\* C3: a call waits on a build's status_notify only while the build is
\* Building; the step that takes the status out of Building wakes every call
\* waiting on that build; and a woken call that finds Ok returns the artefact
\* path, one that finds Fail returns no path.
C3_WaitersWoken ==
    /\ [](\A t \in Tasks : pc[t] = "wait_status" => StatusOf(task_id[t]) = "Building")
    /\ [][\A t \in Tasks :
            (/\ pc[t] = "wait_status"
             /\ phase' = "running"
             /\ StatusOf(task_id[t])' # "Building")
            => pc'[t] = "woken_status"]_vars
    /\ [][\A t \in Tasks :
            (/\ pc[t] = "woken_status"
             /\ phase' = "running"
             /\ pc'[t] # "woken_status"
             /\ StatusOf(task_id[t]) \in {"Ok", "Fail"})
            => /\ pc'[t] = "done"
               /\ ret'[t] = IF StatusOf(task_id[t]) = "Ok"
                            THEN Some(GetArtefactPath(task_id[t])) ELSE None]_vars

\* Two waiters of one build were woken together: one has returned the path,
\* the other is about to.
C3_Witness ==
    \E t, u \in Tasks : /\ t # u
                        /\ task_id[t] = task_id[u]
                        /\ pc[t] = "done" /\ ret[t].tag = "Some"
                        /\ pc[u] = "woken_status"
                        /\ attempts[task_id[t]] = 1

\* C4: whenever a call has returned the artefact path of build id i, the
\* log on disk holds a Create entry for i and a Complete{success=true} entry
\* for i, and the last Complete entry for i in the log is that success.
C4_OkIsLogged ==
    \A t \in Tasks :
        (pc[t] = "done" /\ ret[t].tag = "Some")
        => LET i == task_id[t] IN
           /\ ret[t] = Some(GetArtefactPath(i))
           /\ CreateLinesOfId(i) # {}
           /\ LinesOf(CompleteEntry(i, TRUE)) # {}
           /\ \A k \in CompleteLinesOfId(i) :
                \E m \in LinesOf(CompleteEntry(i, TRUE)) : m >= k

\* A path is returned by a manager that was started from an existing log.
C4_Witness ==
    \E t \in Tasks : /\ pc[t] = "done" /\ ret[t].tag = "Some"
                     /\ task_id[t] \notin chosen_run

\* C5 (as claimed): in a run in which no write has failed, the log on disk
\* replays without error into a fresh state that has the same revision to id
\* mapping, the same ids and the same committed status of every build as
\* the state in memory.
C5_LogReplaysToState ==
    (Running /\ ~write_failed) =>
        LET r == ReadBuildLog(disk) IN
        /\ ~r.truncate
        /\ r.state.builds_by_rev = state.builds_by_rev
        /\ DOMAIN r.state.builds_by_id = DOMAIN Builds
        /\ \A i \in DOMAIN Builds :
             /\ i \in DOMAIN r.state.builds_by_id
             /\ r.state.builds_by_id[i].status = Committed(StatusOf(i))
             /\ r.state.builds_by_id[i].rev = Builds[i].rev

C7_CorruptLogTruncated ==
    [][(phase = "down" /\ ReadBuildLog(disk).truncate /\ phase' # "down")
         => (phase' = "running" /\ disk' = <<>>)]_vars

\* C8 (as claimed): the id chosen for a new build differs from every id
\* chosen before in the directory.
C8_NeverChosenTwice ==
    [][(phase = "running" /\ phase' = "running" /\ state'.next_build # state.next_build)
         => (state'.next_build - 1) \notin chosen]_vars

\* C8 (amended): the id chosen for a new build differs from every id chosen
\* before in the same run of the manager and from every id that has a Create
\* entry in the log.
C8_NeverReusesCreated ==
    [][(phase = "running" /\ phase' = "running" /\ state'.next_build # state.next_build)
         => (state'.next_build - 1) \notin (chosen_run \cup CreatedIds)]_vars

\* An id was chosen by a manager that was started from a log that already
\* holds the Create entry of another id.
C8_Witness ==
    /\ Running
    /\ chosen_run # {}
    /\ CreatedIds \ chosen_run # {}

\* C9: in every state of a running manager no two build records carry the
\* same revision.
C9_OneBuildPerRev ==
    Running => \A i, j \in DOMAIN Builds : i # j => Builds[i].rev # Builds[j].rev

\* Two builds, one replayed from the log and one created in this run for a
\* revision that two calls asked for.
C9_Witness ==
    /\ Running
    /\ \E i, j \in DOMAIN Builds : i \notin chosen_run /\ j \in chosen_run
    /\ \E t, u \in Tasks : t # u /\ task_id[t] = task_id[u] /\ task_id[t] \in chosen_run

\* C10: apply_log_entry accepts a Create entry exactly when its id is not
\* yet known and any other entry exactly when its id is known, and a
\* rejected entry leaves the state as it was.
C10_ApplyAcceptance ==
    \A e \in AllEntries :
        LET a == ApplyLogEntry(state, e) IN
        /\ a.ok <=> ((e.type = "Create") <=> (e.id \notin DOMAIN Builds))
        /\ ~a.ok => a.state = state

\* A ClearFail for an unknown id was committed to a manager that has a build.
C10_Witness ==
    /\ Running
    /\ Builds # EmptyMap
    /\ \E i \in Ids : i \notin DOMAIN Builds /\ LinesOf(ClearFailEntry(i)) # {}

\* C11: a call of get_or_make_build that finds the record of its revision in
\* status Fail returns no path in that step, without entering build_inner and
\* without writing to the log; while the manager runs, a record leaves Fail
\* only in the step that appends the ClearFail line of its id, and it leaves
\* to Pending; and whenever build_inner is entered for an id, every
\* Complete{success=false} line of the id in the log is followed by a
\* ClearFail line of the id.
C11_FailIsSticky ==
    /\ [][\A t \in Tasks :
            (/\ pc[t] \in {"idle", "woken_status"}
             /\ pc'[t] # pc[t]
             /\ phase' = "running"
             /\ task_rev'[t] \in DOMAIN state.builds_by_rev
             /\ StatusOf(state.builds_by_rev[task_rev'[t]]) = "Fail")
            => /\ pc'[t] = "done"
               /\ ret'[t] = None
               /\ disk' = disk
               /\ attempts' = attempts
               /\ state' = state]_vars
    /\ [][\A i \in DOMAIN Builds :
            (StatusOf(i) = "Fail" /\ phase' = "running" /\ StatusOf(i)' # "Fail")
            => /\ StatusOf(i)' = "Pending"
               /\ disk' = Append(disk, ToJson(ClearFailEntry(i)))]_vars
    /\ [][\A i \in Ids :
            (attempts'[i] # attempts[i] /\ phase' = "running" /\ phase = "running")
            => \A k \in LinesOf(CompleteEntry(i, FALSE)) :
                  \E m \in LinesOf(ClearFailEntry(i)) : m > k]_vars

\* A call for a revision whose build failed has returned no path, and after
\* a ClearFail another call is inside build_inner for the same id.
C11_Witness ==
    \E t, u \in Tasks :
        /\ t # u
        /\ task_id[t] = task_id[u]
        /\ task_id[t] \in Ids
        /\ pc[t] = "done" /\ ret[t] = None
        /\ pc[u] = "in_build"
        /\ LinesOf(CompleteEntry(task_id[t], FALSE)) # {}
        /\ LinesOf(ClearFailEntry(task_id[t])) # {}

\* The calls that have taken build i to Building and have not left it.
BuildersOf(i) ==
    {t \in Tasks : task_id[t] = i /\ pc[t] \in {"wait_building", "woken_building", "in_build"}}

\* C12: a clear_fail(id) for a known id whose line is written sets the
\* status of the build to Pending if it was Fail and leaves every other
\* status as it was; the status of a build becomes Pending from another
\* status only in such a step from Fail; and no build has two calls that
\* have started it and not finished it.
C12_ClearFailOnlyFail ==
    /\ [][\A i \in DOMAIN Builds :
            (disk' = Append(disk, ToJson(ClearFailEntry(i))) /\ phase' = "running")
            => StatusOf(i)' = IF StatusOf(i) = "Fail" THEN "Pending" ELSE StatusOf(i)]_vars
    /\ [][\A i \in DOMAIN Builds :
            (phase' = "running" /\ StatusOf(i) # "Pending" /\ StatusOf(i)' = "Pending")
            => StatusOf(i) = "Fail"]_vars
    /\ [](\A i \in Ids : Cardinality(BuildersOf(i)) <= 1)

\* A ClearFail was written for a build while a call was inside build_inner
\* for it and a second call waited for its status.
C12_Witness ==
    \E t, u \in Tasks :
        /\ task_id[t] = task_id[u]
        /\ pc[t] = "in_build"
        /\ pc[u] = "wait_status"
        /\ LinesOf(ClearFailEntry(task_id[t])) # {}
        /\ StatusOf(task_id[t]) = "Building"

----------------------------------------------------------------------------
\* Helpers of the properties of the runner.

Occurred(error) == \E k \in 1..Len(occurred) : occurred[k] = error

HasFinished == events # <<>> /\ events[Len(events)].type = "Finished"

FinishedError == events[Len(events)].error

TestEvents == SelectSeq(events, LAMBDA e : e.type = "Test")

\* The first error of the run that is no Timeout.
FirstError ==
    LET ks == {k \in 1..Len(occurred) : occurred[k] # "Timeout"} IN
    IF ks = {} THEN NoError
    ELSE occurred[CHOOSE k \in ks : \A m \in ks : k <= m]

\* The select loop of next() has not been left.
InLoop == stream \in {"select", "yielded"} /\ LoopCond(rstate)

\* C13 (as claimed): the events of a run that was spawned are one Launch,
\* then Test events, then one Finished; after Finished the stream ends; and
\* a stream that is polled and not dropped gets to its end.
C13_LaunchTestsFinished ==
    /\ [](\A k \in 1..Len(events) :
            /\ (events[k].type = "Launch") <=> (k = 1 /\ proc # "none")
            /\ events[k].type = "Finished" => k = Len(events))
    /\ [](stream = "returned" => HasFinished)
    /\ (stream = "created") ~> (stream \in {"returned", "dropped"})

\* C14 (as claimed): once the timeout arm has fired, the runner has not
\* panicked, Timeout is the latched cause until Finished is yielded, and
\* Finished carries Timeout.
C14_TimeoutLatched ==
    Occurred("Timeout") =>
        /\ stream # "panicked"
        /\ IF HasFinished THEN FinishedError = "Timeout"
           ELSE stream \in {"select", "yielded"} => rstate.crash = "Timeout"

\* C15 (as claimed): Finished carries Timeout if the timeout fired, else
\* Crash if the child exited without success.
C15_MostInformative ==
    HasFinished =>
        IF Occurred("Timeout") THEN FinishedError = "Timeout"
        ELSE Occurred("Crash") => FinishedError = "Crash"

\* C16: a Finished without error is yielded only in a run in which a
\* test-start line and DONE! were read, no test was open when the select
\* loop ended, the child exited with success, and no read failure, wait
\* failure, FATAL ERROR line, parse error, non-success exit or timeout
\* occurred.
C16_NoErrorOnlyIfClean ==
    (HasFinished /\ FinishedError = NoError) =>
        /\ starts # <<>>
        /\ done_seen
        /\ ~open_at_exit
        /\ proc = "exited_ok"
        /\ occurred = <<>>

\* A run has ended without error.
C16_Witness ==
    /\ HasFinished /\ FinishedError = NoError
    /\ stream = "returned"
    /\ Len(TestEvents) = 1

\* C17 (as claimed): while the select loop runs, the latched cause is the
\* first error of the run that is no Timeout (none if there was none).
C17_FirstErrorLatched ==
    InLoop => rstate.crash = FirstError

\* C18 (as claimed): the Test events carry the names of the test-start
\* lines read before DONE!, in their order, at most one event per line; and
\* every such line gets its Test event in a stream that is polled and not
\* dropped.
C18_EveryStartYieldsTest ==
    /\ [](/\ Len(TestEvents) <= Len(starts)
          /\ \A k \in 1..Len(TestEvents) : TestEvents[k].name = starts[k])
    /\ \A k \in 1..MaxLines :
          (Len(starts) >= k) ~> (stream = "dropped" \/ Len(TestEvents) >= k)

\* C19: when the stream is dropped the child process does not run, or the
\* kill task of the timeout arm is still to run; and after a drop the
\* process comes to a state in which it does not run.
C19_DropKillsChild ==
    /\ []((stream = "dropped" /\ proc = "running") => kill_task = "pending")
    /\ (stream = "dropped") ~> (proc # "running")

\* The stream was dropped after a Test event while its child ran, and the
\* drop has killed the child.
C19_Witness ==
    /\ stream = "dropped"
    /\ proc = "killed"
    /\ kill_task = "none"
    /\ ~Occurred("WaitFailed")
    /\ Len(TestEvents) > 0

----------------------------------------------------------------------------
\* C20 (as claimed): for every put that returned a TestRef, get_name of
\* the TestRef is the path that was put, in the suite as it is then and
\* after every later put.
C20_RoundTrip ==
    \A x \in returned : GetName(suite, x[2]) = x[1]

----------------------------------------------------------------------------
\* Helpers of the properties of the suite.

\* The paths that were returned a TestRef.
ReturnedPaths == {x[1] : x \in returned}

\* C21: a put of a path that was returned a TestRef before returns the same
\* TestRef and leaves the tests and the groups of the suite as they are;
\* two different paths are never returned the same TestRef and one path
\* never two; and the suite has one test for every path that was returned
\* one.
C21_PutIdempotent ==
    /\ \A x \in returned :
          LET r == SuitePut(suite, x[1]) IN
          /\ r.ok /\ r.id = x[2]
          /\ r.suite.tests = suite.tests
          /\ r.suite.groups = suite.groups
    /\ \A x, y \in returned : (x[1] = y[1]) <=> (x[2] = y[2])
    /\ Len(suite.tests) = Cardinality(ReturnedPaths)
    /\ {x[2] : x \in returned} = 0..(Len(suite.tests) - 1)

\* A path with a group was put a second time and was returned a TestRef.
C21_Witness ==
    /\ last_put.ok /\ last_put.known
    /\ Len(suite.tests) = 1
    /\ Len(suite.groups) > 1

\* C22: in every state of the suite, for every path x that was returned a
\* TestRef, a put of a path that goes on from x with the separator (x used
\* as a group) returns an error, and so does a put of a path from which x
\* goes on with the separator (a group of x named as a test).
C22_ConflictIsError ==
    \A p \in ReturnedPaths :
        /\ \A rest \in Paths :
              Len(p) + Len(suite.separator) + Len(rest) <= MaxPathLen =>
                  ~SuitePut(suite, p \o suite.separator \o rest).ok
        /\ \A k \in 0..(Len(p) - 1) :
              ExtendsPath(p, SubSeq(p, 1, k)) => ~SuitePut(suite, SubSeq(p, 1, k)).ok

\* The last put failed on a path that uses an existing test as a group and
\* has no empty segment.
C22_Witness ==
    /\ ~last_put.ok
    /\ last_put.uses_test

\* C23: no path with an empty segment is returned a TestRef: a put of a
\* path that starts or ends with the separator, has two separators in a
\* row, or is empty, returns an error.
C23_EmptySegmentIsError ==
    \A p \in ReturnedPaths : ~HasEmptySegment(p)

\* The name of each child of a group, in the order of the children.
ChildNames(g) ==
    [k \in 1..Len(suite.groups[g].children) |->
        ChildName(suite, Unpack(suite.groups[g].children[k]))]

\* C24: after any sequence of put calls, the children of a group have
\* different names, whether they are tests, groups, or one of each.
C24_ChildNamesDistinct ==
    \A g \in 1..Len(suite.groups) :
        LET names == ChildNames(g) IN
        \A j, k \in 1..Len(names) : j # k => names[j] # names[k]

\* After a failed put, a group has a test and a group among its children.
C24_Witness ==
    /\ ~last_put.ok
    /\ \E g \in 1..Len(suite.groups) :
          \E j, k \in 1..Len(suite.groups[g].children) :
              /\ Unpack(suite.groups[g].children[j]).tag = "Test"
              /\ Unpack(suite.groups[g].children[k]).tag = "Group"

\* C25: every put of a string returns the (Ref, Idx) that the first put of
\* that string returned, also after the map has grown, and two different
\* strings that are not empty are never returned the same Idx or the same
\* Ref.
C25_PoolPutStable ==
    /\ \A x, y \in pool_returned : x[1] = y[1] => x = y
    /\ \A x, y \in pool_returned :
          (x[1] # <<>> /\ y[1] # <<>> /\ x[1] # y[1]) => (x[2] # y[2] /\ x[3] # y[3])
    /\ \A x \in pool_returned : PoolGet(string_pool, x[2]) = x[1]

\* After the map has grown, with two strings of the same hash in the pool, a
\* string that was put before is put again.
C25_Witness ==
    /\ Len(string_pool.map) > InitialMapSize
    /\ pool_reput
    /\ \E a, b \in PoolStrings : a # b /\ hashes[a] = hashes[b] /\ hashes[a] # NoHash

\* The text is {"top":"git-<40 lowercase hexadecimal digits>"}.
IsTopOnlyText(text) ==
    /\ Len(text) = 15 + 2 * HashLen
    /\ SubSeq(text, 1, 13) = <<"{", "\"", "t", "o", "p", "\"", ":", "\"", "g", "i", "t", "-">>
    /\ \A i \in 14..(13 + 2 * HashLen) : \E v \in 1..16 : text[i] = LowerHex[v]
    /\ SubSeq(text, 14 + 2 * HashLen, 15 + 2 * HashLen) = <<"\"", "}">>

\* C26: a text {"top":"git-<40 lowercase hexadecimal digits>"} is read as a
\* Revision without submodule overrides and written back as the same text;
\* and the text written of any Revision is read back as an equal Revision.
C26_RevisionRoundTrip ==
    /\ (sut_in # NoText /\ IsTopOnlyText(sut_in)) =>
          /\ sut_rev.tag = "ok"
          /\ sut_rev.rev.submodule_overrides = <<>>
          /\ sut_out # NoText => sut_out = sut_in
    /\ sut_back # NoResult => sut_back = OkResult(sut_rev.rev)

\* The sample of the unit test was read, written and read back.
C26_Witness ==
    /\ sut_in = <<"{", "\"", "t", "o", "p", "\"", ":", "\"", "g", "i", "t", "-", "6", "3", "0", "9", "e", "9", "c", "7", "e", "e", "d", "d", "c", "7", "3", "1", "8", "1", "5", "e", "e", "a", "5", "f", "e", "e", "6", "9", "6", "a", "c", "4", "f", "b", "0", "9", "8", "e", "0", "9", "\"", "}">>
    /\ sut_rev.tag = "ok" /\ sut_rev.rev.top[1] = 99
    /\ sut_out = sut_in
    /\ sut_back # NoResult

\* A Revision with two submodule overrides was written and read back.
C26_WitnessOverrides ==
    /\ sut_in = NoText
    /\ Len(sut_rev.rev.submodule_overrides) = 2
    /\ sut_back # NoResult

\* Name n1 has a positive weight and a count / weight below that of n2, or
\* n2 has the weight 0.
RatioBelow(n1, n2) ==
    /\ sampler.names[n1].weight > 0
    /\ \/ sampler.names[n2].weight = 0
       \/ sampler.names[n1].sampled_count * sampler.names[n2].weight
            < sampler.names[n2].sampled_count * sampler.names[n1].weight

\* The names of a test, as a set.
NameSet(t) == {NamesOfTest(suite, t)[k] : k \in 1..Len(NamesOfTest(suite, t))}

\* C27: a sample call with the draws t1 and t2 returns t1 if t1 was returned
\* less often than t2, t2 if t2 was returned less often than t1, and for
\* equal counts t2 exactly when a name of t2 has a count / weight below that
\* of every name of t1 of positive weight, and t1 otherwise.
C27_SampleChoice ==
    [][(nsamples' = nsamples + 1 /\ sampler'.tag = "ok") =>
        LET t1 == last_sample'.sample1
            t2 == last_sample'.sample2
            c1 == sampler.test_counts[t1 + 1]
            c2 == sampler.test_counts[t2 + 1]
            take2 == \E n2 \in NameSet(t2) : \A n1 \in NameSet(t1) :
                         sampler.names[n1].weight > 0 => RatioBelow(n2, n1)
        IN  /\ last_sample'.sample \in {t1, t2}
            /\ c1 < c2 => last_sample'.sample = t1
            /\ c2 < c1 => last_sample'.sample = t2
            /\ c1 = c2 => (last_sample'.sample = t2 <=> (take2 \/ t1 = t2))]_vars

\* The last sample call drew two different tests of equal counts, after
\* another sample call, and returned the second.
C27_Witness ==
    /\ nsamples >= 2
    /\ sampler.tag = "ok"
    /\ last_sample.sample1 # last_sample.sample2
    /\ last_sample.sample = last_sample.sample2
    /\ sampler.test_counts[last_sample.sample2 + 1]
         = sampler.test_counts[last_sample.sample1 + 1] + 1

\* C28: when the commit of the Complete entry fails after build_inner
\* returned (the line is not written, or the entry is not applied), the
\* same step leaves the build with the status Fail, wakes every future that
\* waits for the status of that build, has released the builder flag, and
\* the call returns None.
C28_FailedCommitForcesFail ==
    [][\A t \in Tasks :
        LET id == task_id[t]
            failed ==
                \/ disk' = disk
                \/ \E success \in BOOLEAN :
                      /\ disk' = Append(disk, ToJson(CompleteEntry(id, success)))
                      /\ ~ApplyLogEntry(state, CompleteEntry(id, success)).ok
        IN  (pc[t] = "in_build" /\ pc'[t] = "done" /\ failed) =>
                /\ state'.builds_by_id[id].status = "Fail"
                /\ ~building'
                /\ ret'[t] = None
                /\ \A u \in Tasks :
                      (pc[u] = "wait_status" /\ task_id[u] = id) => pc'[u] = "woken_status"]_vars

\* The builder of a build has returned None after the write of Complete
\* failed, the build is Fail, and a future that waited for it is woken.
C28_Witness ==
    \E t, u \in Tasks :
        /\ t # u /\ task_id[t] = task_id[u]
        /\ pc[t] = "done" /\ ret[t] = None
        /\ pc[u] = "woken_status"
        /\ \A v \in Tasks \ {t, u} : pc[v] = "idle"
        /\ StatusOf(task_id[t]) = "Fail"
        /\ CompleteLinesOfId(task_id[t]) = {}
        /\ write_failed /\ ~building

\* The final Test event of a loop that ended with the state s.
FinalTest(s) ==
    TestEvent(s.current_test, IF s.crash = "Timeout" THEN "Timeout" ELSE "Crash",
              <<>>, s.stdout, s.stderr)

\* C29: when the select loop has ended with a test open, the runner has
\* emitted a Test event for that test, with the variant Timeout if the
\* latched cause was Timeout and Crash else, and with the accumulated
\* stdout and stderr; it is the last Test event, and the event after it, if
\* any, is Finished with the error Timeout in the first case and Incomplete
\* in the second.
C29_FinalTestEvent ==
    open_at_exit =>
        LET n == Len(events)
            finished_error == IF exit_state.crash = "Timeout" THEN "Timeout" ELSE "Incomplete"
        IN  \/ /\ n >= 1
               /\ events[n] = FinalTest(exit_state)
            \/ /\ n >= 2
               /\ events[n - 1] = FinalTest(exit_state)
               /\ events[n].type = "Finished"
               /\ events[n].error = finished_error

\* The loop ended with a test open and no latched cause, with stdout and
\* stderr accumulated, and Finished was emitted.
C29_Witness ==
    /\ open_at_exit /\ HasFinished
    /\ exit_state.crash = NoError
    /\ exit_state.stdout # <<>> /\ exit_state.stderr # <<>>

\* The loop ended with a test open by the timeout, and Finished was emitted.
C29_WitnessTimeout ==
    /\ open_at_exit /\ HasFinished
    /\ exit_state.crash = "Timeout"

\* C30: a stdout line read after DONE! only appends the line to the stdout
\* accumulator: it emits no event and it neither opens nor closes a test.
\* A Test event emitted after DONE! is the final one of a loop that ends
\* with the test open.
C30_AfterDoneOnlyAccumulates ==
    [][rstate.tests_done =>
        /\ nlines' = nlines + 1 =>
              /\ events' = events
              /\ \E text \in StdoutTexts : rstate' = [rstate EXCEPT !.stdout = Append(@, text)]
        /\ (events' # events /\ events'[Len(events')].type = "Test") =>
              /\ ~open_at_exit /\ open_at_exit'
              /\ rstate.current_test # NoTest
              /\ events' = Append(events, FinalTest(exit_state'))]_vars

\* With a test open, DONE! and then a result line were read; the loop ended
\* and the test was reported by the final Test event.
C30_Witness ==
    /\ open_at_exit
    /\ exit_state.tests_done
    /\ Len(exit_state.stdout) = 3
    /\ ParseResult(exit_state.stdout[3]).ok
    /\ Len(TestEvents) = 1

\* C31: a stdout line that is parsed as a result line resets the timeout to
\* its full duration; no other stdout line (a test start, another line, a
\* line after DONE!), no end or error of stdout, no stderr line and no exit
\* of the child changes it.  The timeout changes by nothing but such a
\* reset and the passing of time, and its arm is taken only when the full
\* duration has passed since the last reset.
C31_ResultLineRearmsTimeout ==
    [][stream = "select" =>
        /\ \A text \in StdoutTexts :
              StdoutArm(Line(text)) =>
                  rstate'.timeout = IF ~rstate.tests_done /\ ParseResult(text).ok
                                    THEN TimeoutTicks ELSE rstate.timeout
        /\ (StdoutArm(Eof) \/ StdoutArm(ReadErr)) => rstate'.timeout = rstate.timeout
        /\ \A l \in {Line(text) : text \in StderrTexts} \cup {Eof, ReadErr} :
              StderrArm(l) => rstate'.timeout = rstate.timeout
        /\ \A wait_ok \in BOOLEAN : ChildArm(wait_ok) => rstate'.timeout = rstate.timeout
        /\ rstate'.timeout # rstate.timeout =>
              \/ Tick
              \/ \E text \in StdoutTexts :
                    /\ StdoutArm(Line(text))
                    /\ ~rstate.tests_done /\ ParseResult(text).ok
        /\ TimeoutArm => rstate.timeout = 0]_vars

\* The child has exited and its arm was taken, a test was started and its
\* result line was parsed: the Sleep is at its full duration again.
C31_Witness ==
    /\ stream = "yielded"
    /\ ~rstate.child /\ rstate.stdout_reader
    /\ events[Len(events)].type = "Test" /\ events[Len(events)].variant = "Pass"
    /\ rstate.timeout = TimeoutTicks

\* C32: the arm of the child's exit, whatever the status, ends the loop only
\* if both readers are gone already: else it emits nothing, keeps both
\* readers as they are and goes back to the select.  A result line read
\* with the child handle gone and a test open emits the Test event of that
\* test with the parsed result.  A Finished event is emitted only by a step
\* that ends with the stdout reader, the stderr reader and the child handle
\* all gone.
C32_ChildExitDoesNotEndRun ==
    [][/\ \A wait_ok \in BOOLEAN :
            (ChildArm(wait_ok) /\ (rstate.stdout_reader \/ rstate.stderr_reader)) =>
                /\ events' = events /\ stream' = "select"
                /\ ~rstate'.child
                /\ rstate'.stdout_reader = rstate.stdout_reader
                /\ rstate'.stderr_reader = rstate.stderr_reader
       /\ \A text \in StdoutTexts :
            (/\ StdoutArm(Line(text))
             /\ ~rstate.child /\ ~rstate.tests_done /\ rstate.current_test # NoTest
             /\ ParseResult(text).ok) =>
                events' = Append(events,
                                 TestEvent(rstate.current_test, ParseResult(text).variant,
                                           ParseResult(text).report,
                                           Append(rstate.stdout, text), <<>>))
       /\ (events' # events /\ events'[Len(events')].type = "Finished") =>
            ~rstate'.stdout_reader /\ ~rstate'.stderr_reader /\ ~rstate'.child]_vars

\* The child has failed and its arm was taken with both readers there; the
\* result line of the open test was read after it and its Test event was
\* emitted, and the readers are still there.
C32_Witness ==
    /\ stream = "yielded"
    /\ occurred = <<"Crash">> /\ ~rstate.child
    /\ rstate.stdout_reader /\ rstate.stderr_reader
    /\ events[Len(events)].type = "Test" /\ events[Len(events)].variant = "Fail"

\* The run has ended with Finished after the child had exited with success
\* and both readers came to their end later.
C32_WitnessFinished ==
    /\ HasFinished /\ FinishedError = NoError
    /\ proc = "exited_ok" /\ nlines + nerrlines = MaxLines

\* What a result line read while no test is open does in one step: no Test
\* event, the stdout reader is dropped, and ParseError is the latched cause
\* unless there was one; the cause is in the state, or in the Finished event
\* of a loop that this step has ended.  No stdout line is read after the
\* reader is gone, and a Finished after a ParseError carries an error.
C39_Safety ==
    /\ [][\A text \in StdoutTexts :
            (/\ StdoutArm(Line(text))
             /\ ~rstate.tests_done /\ rstate.current_test = NoTest
             /\ ParseResult(text).ok) =>
                LET cause == IF rstate.crash = NoError THEN "ParseError" ELSE rstate.crash IN
                /\ ~rstate'.stdout_reader
                /\ occurred' = Append(occurred, "ParseError")
                /\ IF LoopCond(rstate')
                   THEN events' = events /\ rstate'.crash = cause
                   ELSE events' = Append(events, FinishedEvent(cause, Append(rstate.stdout, text),
                                                               rstate.stderr))]_vars
    /\ [][(stream # "none" /\ ~rstate.stdout_reader) =>
            (nlines' = nlines /\ ~rstate'.stdout_reader)]_vars
    /\ []((Occurred("ParseError") /\ HasFinished) => FinishedError # NoError)

\* C39 (as claimed): a result line read while no test is open produces no
\* Test event, drops the stdout reader, latches ParseError if no cause is
\* latched, no stdout line is read after it, and the run that is polled and
\* not dropped ends with a Finished event that carries an error.
C39_ResultLineWithoutTest ==
    /\ C39_Safety
    /\ Occurred("ParseError") ~> (stream = "dropped" \/ (HasFinished /\ FinishedError # NoError))

\* C40: in a run whose spawn has failed the stream yields one event, the
\* Finished with SpawnFailed and empty stdout and stderr, and then ends:
\* the events are that one event once the stream was polled and none
\* before, so there is no Launch and no Test event, and the select of
\* next() is never entered.
C40_SpawnFailedOnlyFinished ==
    (stream # "none" /\ proc = "none") =>
        /\ stream \in {"spawn_failed", "yielded", "returned", "dropped"}
        /\ events \in {<<>>, <<FinishedEvent("SpawnFailed", <<>>, <<>>)>>}
        /\ stream \in {"yielded", "returned"} => events # <<>>
        /\ stream = "spawn_failed" => events = <<>>

\* The spawn has failed, the stream was polled to its end.
C40_Witness ==
    /\ proc = "none" /\ stream = "returned"
    /\ events = <<FinishedEvent("SpawnFailed", <<>>, <<>>)>>

\* C38 (as claimed): a put that returns an error leaves the suite as it
\* was: no test, no group and no name is added, so that every later put
\* has the result it would have without the failed call.
C38_FailedPutChangesNothing ==
    [][(nputs' = nputs + 1 /\ ~last_put'.ok) => suite' = suite]_vars

C37_MapsConsistent ==
    /\ \A rev \in DOMAIN state.builds_by_rev :
          /\ state.builds_by_rev[rev] \in DOMAIN state.builds_by_id
          /\ state.builds_by_id[state.builds_by_rev[rev]].rev = rev
    /\ \A t \in Tasks :
          pc[t] \notin {"idle", "done"} => task_id[t] \in DOMAIN state.builds_by_id
    /\ \A id \in DOMAIN state.builds_by_id : id < state.next_build
    /\ ScanId(state, state.next_build) = state.next_build

\* A manager that has read two builds from the log and has allocated
\* nothing in this run.
C37_Witness ==
    /\ phase = "running" /\ chosen_run = {}
    /\ DOMAIN state.builds_by_rev = Revs
    /\ DOMAIN state.builds_by_id = {1, 2}
    /\ state.next_build = 3

\* C33 (as claimed): whatever the hashes of the strings are, a put of a new
\* non-empty string does not panic: after the growth every entry of the
\* old map and the new string find an empty slot on their probe sequence
\* in the grown map.
C33_PutNeverPanics ==
    ~fill.panicked /\ ~pool_panicked

\* C35: in a run in which every build_inner returns and no future is
\* dropped, every call of get_or_make_build returns, and a call that waits
\* for the builder flag gets it, also after it was woken and has found the
\* flag taken by a later call.
C35_EveryCallReturns ==
    \A t \in Tasks :
        /\ (pc[t] # "idle") ~> (pc[t] = "done")
        /\ (pc[t] = "wait_building") ~> (pc[t] = "in_build")

\* Call 2 has waited for the flag held by call 1 and was woken by its
\* release; call 3 came for a build that was made Pending again and took
\* the flag before call 2 ran, so that call 2 waits for the flag again.
C35_Witness ==
    /\ phase = "running"
    /\ pc[1] = "done" /\ pc[2] = "wait_building" /\ pc[3] = "in_build"
    /\ building /\ building_waiters = <<2>>

====
